---- MODULE Spec2Model ----
(***************************************************************************)
(* Counterfactual filtering pipeline of LLM-AL:                            *)
(*   - VariationTheoryFilter (src/app/filter/variation_theory_filter.py):  *)
(*     heuristic gate C1, combined semantic evaluator C2+C3, threshold     *)
(*     decision and composite score;                                       *)
(*   - the batch loop of make_demos.main with the generator and the        *)
(*     annotator (src/app/services/demos/make_demos.py);                   *)
(*   - the diversity selection of select_top_k.main                        *)
(*     (src/app/services/demos/select_top_k.py);                           *)
(*   - the pattern store of NeuroSymbolicPatternLearner, its choice of the *)
(*     best pattern and its store file names                               *)
(*     (src/app/patterns/neurosymbolic_patterns.py);                       *)
(*   - the retry loop of OllamaClient.run (src/app/llm/ollama.py);         *)
(*   - the structured-response extractors _strict_json                     *)
(*     (src/app/annotate/llm_annotator.py) and _parse_json_response.       *)
(*                                                                         *)
(* Texts are sequences of characters (one-character strings; characters    *)
(* outside ASCII are named by their code point, "U2026" is the ellipsis,  *)
(* "BQ" the backquote, "NL" the newline, "TAB" the tab).                     *)
(* Scores are exact decimals in hundredths (85 is 0.85); a float that is   *)
(* not a number is kept apart as NaN, with Python's comparison rules.      *)
(***************************************************************************)
EXTENDS Integers, Sequences, FiniteSets, TLC

VARIABLES
    \* one call of VariationTheoryFilter.apply_three_stage_filter
    pc,               \* position inside apply_three_stage_filter / the gate run
    text,             \* the counterfactual text handed to the filter
    cfg,              \* self.cfg: the configured thresholds (not set: the default)
    c1_result,        \* result of _stage_c1_heuristic_filter
    combined_result,  \* result of _combined_filter
    result,           \* the record apply_three_stage_filter returns
    response,         \* what self.client.run gave: a response text or a transport error
    requests,         \* number of self.client.run calls made by this filter call
    c1_evaluated,     \* TRUE once the heuristic gate has run in this call
    \* one run of make_demos.main
    bpc,              \* position inside main
    labels,           \* task_cfg["labels"]
    rows,             \* shuffled_train_df: the sampled training examples, in order
    row,              \* index of the example the for loop is at
    to_label,         \* target label chosen for the current example
    cf_candidates,    \* counterfactual proposals of the current example
    idx,              \* index of the proposal the inner loop is at
    cf_label,         \* label the annotator assigned to the current proposal
    best_candidate,   \* best passing proposal of the current example, or None
    best_score,       \* its score
    candidates,       \* the candidate pool
    counts,           \* generated_count, empty_cf_count, failed_filter_count
    pool_file,        \* what write_json wrote to all_candidates_path, or NoValue
    \* one run of select_top_k.main
    spc,              \* position inside main
    sel_candidates,   \* candidates: the pool loaded from the candidate file
    args_k,           \* args.k
    diversity_threshold, \* args.diversity_threshold, in hundredths
    vecs,             \* one embedding vector per candidate, or NoVecs for None
    order,            \* the candidate indices sorted by score, best first
    pos,              \* how many entries of order the for loop has taken
    selected_idx,     \* indices of the admitted candidates
    selected,         \* the admitted candidates
    demos_file,       \* what write_json wrote to output_path, or NoValue
    \* one call of NeuroSymbolicPatternLearner.learn_all_patterns
    lpc,              \* position inside learn_all_patterns and save_patterns
    force_relearn,    \* the force_relearn argument
    all_labels,       \* the labels argument
    label_examples,   \* number of training examples of each label
    store_file,       \* the pattern store file of (task, model)
    latest_link,      \* the "latest" alias: absent, or a link to the store file
    store_before,     \* the pattern store file as it was when the call began
    existing_patterns, \* what load_existing_patterns returned
    all_patterns,     \* the label-to-patterns mapping being learned
    li,               \* index of the label the for loop is at
    learn_requests,   \* number of pattern-learning requests made by this call
    store_writes,     \* number of write_json calls made by this call
    store_reads,      \* number of times this call opened the store file to read it
    returned,         \* what learn_all_patterns returned, or NoValue
    \* one call of NeuroSymbolicPatternLearner.identify_candidate_phrases
    ipc,              \* position: before or after the call
    id_patterns,      \* the patterns argument: the label-to-patterns mapping
    original_label,   \* the original_label argument
    candidate_info,   \* what identify_candidate_phrases returned, or NoValue
    \* one call of OllamaClient.run
    cpc,              \* position inside run
    retries,          \* the retries argument
    attempt,          \* the loop variable of "for attempt in range(retries + 1)"
    attempt_log,      \* how each requests.post so far ended
    sleeps,           \* the time.sleep calls so far, in units of half a second
    run_result,       \* what run returned or raised, or NoValue
    \* the directory reports/patterns over several calls
    kpc,              \* position: between calls, or after a load
    patterns_dir,     \* the store files: name, and the task and model they were learned for
    load_key,         \* task_name and model_name of the last load_existing_patterns call
    load_result,      \* the store file that call read, or None
    saves,            \* number of save_patterns calls so far
    \* one call of a structured-response extractor
    xpc,              \* position inside the extractor
    extractor,        \* which function runs: _strict_json or _parse_json_response
    raw,              \* its argument, the text of the response
    json_str,         \* the text handed to json.loads
    parses,           \* number of json.loads calls so far
    repairs,          \* number of repair passes so far
    extracted         \* what the extractor gave, or NoValue

filterVars == <<pc, text, cfg, c1_result, combined_result, result, response, requests,
                c1_evaluated>>

batchVars == <<bpc, labels, rows, row, to_label, cf_candidates, idx, cf_label,
               best_candidate, best_score, candidates, counts, pool_file>>

selectVars == <<spc, sel_candidates, args_k, diversity_threshold, vecs, order, pos, selected_idx,
                selected, demos_file>>

learnVars == <<lpc, force_relearn, all_labels, label_examples, store_file, latest_link,
               store_before, existing_patterns, all_patterns, li, learn_requests,
               store_writes, store_reads, returned>>

identifyVars == <<ipc, id_patterns, original_label, candidate_info>>

clientVars == <<cpc, retries, attempt, attempt_log, sleeps, run_result>>

dirVars == <<kpc, patterns_dir, load_key, load_result, saves>>

extractVars == <<xpc, extractor, raw, json_str, parses, repairs, extracted>>

otherVars == <<identifyVars, clientVars, dirVars, extractVars>>

vars == <<filterVars, batchVars, selectVars, learnVars, otherVars>>

(***************************************************************************)
(* Characters and strings                                                  *)
(***************************************************************************)
Whitespace == {" ", "NL", "TAB"}

\* str.lower() on the characters that occur in the model's texts
Lower(c) ==
    CASE c = "L" -> "l"
      [] c = "G" -> "g"
      [] c = "J" -> "j"
      [] c = "O" -> "o"
      [] OTHER -> c

LowerStr(s) == [i \in 1..Len(s) |-> Lower(s[i])]

RECURSIVE LStrip(_)
LStrip(s) == IF s # <<>> /\ Head(s) \in Whitespace THEN LStrip(Tail(s)) ELSE s

RECURSIVE RStrip(_)
RStrip(s) ==
    IF s # <<>> /\ s[Len(s)] \in Whitespace THEN RStrip(SubSeq(s, 1, Len(s) - 1)) ELSE s

\* str.strip()
Strip(s) == RStrip(LStrip(s))

\* str.count(c) for a single character
Count(s, c) == Cardinality({i \in 1..Len(s) : s[i] = c})

\* str.startswith / str.endswith / substring test
StartsWith(s, p) == Len(p) <= Len(s) /\ SubSeq(s, 1, Len(p)) = p
EndsWith(s, p) == Len(p) <= Len(s) /\ SubSeq(s, Len(s) - Len(p) + 1, Len(s)) = p
Contains(s, p) == \E i \in 1..(Len(s) - Len(p) + 1) : SubSeq(s, i, i + Len(p) - 1) = p

\* str.split(): the maximal runs of non-whitespace characters, in order
RECURSIVE SplitFrom(_, _, _)
SplitFrom(s, cur, acc) ==
    IF s = <<>> THEN (IF cur = <<>> THEN acc ELSE Append(acc, cur))
    ELSE IF Head(s) \in Whitespace
         THEN SplitFrom(Tail(s), <<>>, IF cur = <<>> THEN acc ELSE Append(acc, cur))
         ELSE SplitFrom(Tail(s), Append(cur, Head(s)), acc)

Split(s) == SplitFrom(s, <<>>, <<>>)

\* max(word_counts.values()): the largest number of occurrences of one word
MaxRepetition(words) ==
    LET occ(i) == Cardinality({j \in 1..Len(words) : words[j] = words[i]})
    IN  IF words = <<>> THEN 0
        ELSE CHOOSE m \in {occ(i) : i \in 1..Len(words)} :
                 \A i \in 1..Len(words) : occ(i) <= m

(***************************************************************************)
(* Stage C1: the heuristic gate                                            *)
(***************************************************************************)
prompt_indicators ==
    { <<"o","r","i","g","i","n","a","l",":">>,
      <<"c","o","u","n","t","e","r","f","a","c","t","u","a","l",":">>,
      <<"l","a","b","e","l",":">>,
      <<"t","a","r","g","e","t",":">>,
      <<"i","n","s","t","r","u","c","t","i","o","n","s",":">>,
      <<"e","x","a","m","p","l","e",":">>,
      <<"g","e","n","e","r","a","t","e">>,
      <<"j","s","o","n",":">> }

json_indicators ==
    { <<"{">>, <<"}">>, <<"[">>, <<"]">>, <<"BQ","BQ","BQ">>, <<"j","s","o","n">> }

\* the characters of U+4E00-U+9FFF and U+3400-U+4DBF that occur in the model's texts
CJKChars == {"U4E2D", "U3400"}

TooShort(t) == Len(Strip(t)) < 5
UnmatchedQuotes(t) == Count(t, "\"") % 2 # 0
Ellipsis(t) == EndsWith(t, <<".", ".", ".">>) \/ EndsWith(t, <<".", ".">>)
PromptLeakage(t) == \E ind \in prompt_indicators : StartsWith(LowerStr(t), ind)
\* faulty variant: half the word count is rounded up
Repetition_RoundsUp(t) ==
    LET words == Split(t)
    IN  Len(words) > 3 /\ MaxRepetition(words) > (Len(words) + 1) \div 2

Repetition(t) ==
    LET words == Split(t)
    IN  Len(words) > 3 /\ MaxRepetition(words) > Len(words) \div 2
JsonRemnants(t) == \E ind \in json_indicators : Contains(t, ind)
NonEnglish(t) == \E i \in 1..Len(t) : t[i] \in CJKChars

PassedReason == "Passed heuristic checks"

\* faulty variant: the quote check runs before the length check
stage_c1_heuristic_filter_QuotesFirst(t) ==
    IF UnmatchedQuotes(t) THEN [pass |-> FALSE, reason |-> "Unmatched quotes"]
    ELSE IF TooShort(t) THEN [pass |-> FALSE, reason |-> "Text too short"]
    ELSE IF Ellipsis(t) THEN [pass |-> FALSE, reason |-> "Incomplete text (ellipsis)"]
    ELSE IF PromptLeakage(t) THEN [pass |-> FALSE, reason |-> "Prompt leakage"]
    ELSE IF Repetition(t) THEN [pass |-> FALSE, reason |-> "Excessive word repetition"]
    ELSE IF JsonRemnants(t) THEN [pass |-> FALSE, reason |-> "JSON formatting remnants"]
    ELSE IF NonEnglish(t)
         THEN [pass |-> FALSE, reason |-> "Non-English characters detected"]
    ELSE [pass |-> TRUE, reason |-> PassedReason]

stage_c1_heuristic_filter(t) ==
    IF TooShort(t) THEN [pass |-> FALSE, reason |-> "Text too short"]
    ELSE IF UnmatchedQuotes(t) THEN [pass |-> FALSE, reason |-> "Unmatched quotes"]
    ELSE IF Ellipsis(t) THEN [pass |-> FALSE, reason |-> "Incomplete text (ellipsis)"]
    ELSE IF PromptLeakage(t) THEN [pass |-> FALSE, reason |-> "Prompt leakage"]
    ELSE IF Repetition(t) THEN [pass |-> FALSE, reason |-> "Excessive word repetition"]
    ELSE IF JsonRemnants(t) THEN [pass |-> FALSE, reason |-> "JSON formatting remnants"]
    ELSE IF NonEnglish(t)
         THEN [pass |-> FALSE, reason |-> "Non-English characters detected"]
    ELSE [pass |-> TRUE, reason |-> PassedReason]

(***************************************************************************)
(* Floats.  A float is [nan, v]: v counts hundredths for a metric and      *)
(* 1/40000 for the composite score; arithmetic is exact.  Every comparison *)
(* with NaN is false, as in Python.                                        *)
(***************************************************************************)
F(v) == [nan |-> FALSE, v |-> v]
NaN == [nan |-> TRUE, v |-> 0]

Lt(a, b) == ~a.nan /\ ~b.nan /\ a.v < b.v
Gt(a, b) == ~a.nan /\ ~b.nan /\ a.v > b.v
Ge(a, b) == ~a.nan /\ ~b.nan /\ a.v >= b.v

\* the builtins max(a, b) and min(a, b): the first argument stays unless the second
\* compares strictly greater (smaller)
PyMax(a, b) == IF Gt(b, a) THEN b ELSE a
PyMin(a, b) == IF Lt(b, a) THEN b ELSE a

\* min(max(x, 0.0), 1.0)
Clamp(x) == PyMin(PyMax(x, F(0)), F(100))

\* if x > 1.0: x = x / 100.0
Percent(x) == IF Gt(x, F(100)) THEN [nan |-> FALSE, v |-> x.v \div 100] ELSE x

(***************************************************************************)
(* Values of a parsed JSON object: a key is absent, or holds a number, the *)
(* JSON literal NaN (json.loads accepts it), or a value float() rejects.   *)
(***************************************************************************)
Absent == [kind |-> "absent", v |-> 0]
Num(v) == [kind |-> "num", v |-> v]
RawNaN == [kind |-> "nan", v |-> 0]
Bad == [kind |-> "bad", v |-> 0]

MetricKeys == {"pkr_score", "lfr_score", "slfr_score"}
QualityKeys == {"minimality", "fluency", "label_determinism", "faithfulness"}
ScoreKeys == MetricKeys \cup QualityKeys

\* float(result.get(key, default)) raises for a value that is no number
FloatRaises(d, key) == d[key].kind = "bad"

\* float(result.get(key, default))
GetFloat(d, key, default) ==
    CASE d[key].kind = "absent" -> F(default)
      [] d[key].kind = "nan" -> NaN
      [] OTHER -> F(d[key].v)

\* truth value of the parsed object: a dict is true when it has any key
Truthy(d) == d.extra \/ \E k \in ScoreKeys : d[k].kind # "absent"

None == [none |-> TRUE]

\* _parse_json_response: one strict parse of the text between the first "{" and the
\* last "}"; json.JSONDecodeError is swallowed and gives None
parse_json_response(resp) ==
    IF resp.parse = "strict_ok" THEN resp.fields ELSE None

(***************************************************************************)
(* The text-scan fallback.  resp.labelled lists, in text order, the places *)
(* "<name>_score: <number>" of the response.  re.search returns the        *)
(* leftmost match, and "lfr[_\s]*score" also matches inside "slfr_score".  *)
(***************************************************************************)
Matches(metric, label) ==
    \/ metric = label
    \/ metric = "lfr" /\ label = "slfr"

\* re.search(metric pattern, response): the position of the leftmost match, 0 if none
Search(metric, labelled) ==
    LET hits == {i \in 1..Len(labelled) : Matches(metric, labelled[i].label)}
    IN  IF hits = {} THEN 0 ELSE CHOOSE i \in hits : \A j \in hits : i <= j

\* float(m.group(1)) if m else default
ScanFloat(metric, labelled, default) ==
    LET m == Search(metric, labelled)
    IN  IF m = 0 THEN F(default) ELSE F(labelled[m].v)

DefaultPkr == 50
DefaultLfr == 0
DefaultSlfr == 0
DefaultQuality == 50

NeutralQuality == [k \in QualityKeys |-> F(DefaultQuality)]

\* faulty variant: the error default takes the 0.8 of the general-strategy PKR
ErrorResult_GeneralPkr ==
    [pkr |-> F(80), lfr |-> F(DefaultLfr), slfr |-> F(DefaultSlfr),
     quality |-> NeutralQuality, reason |-> "Error in combined evaluation"]

ErrorResult ==
    [pkr |-> F(DefaultPkr), lfr |-> F(DefaultLfr), slfr |-> F(DefaultSlfr),
     quality |-> NeutralQuality, reason |-> "Error in combined evaluation"]

StructuredResult(d) ==
    [pkr |-> Clamp(GetFloat(d, "pkr_score", DefaultPkr)),
     lfr |-> Clamp(GetFloat(d, "lfr_score", DefaultLfr)),
     slfr |-> Clamp(GetFloat(d, "slfr_score", DefaultSlfr)),
     quality |-> [k \in QualityKeys |-> Clamp(GetFloat(d, k, DefaultQuality))],
     reason |-> d.overall_reason]

TextScanResult(labelled) ==
    [pkr |-> Clamp(Percent(ScanFloat("pkr", labelled, DefaultPkr))),
     lfr |-> Clamp(Percent(ScanFloat("lfr", labelled, DefaultLfr))),
     slfr |-> Clamp(Percent(ScanFloat("slfr", labelled, DefaultSlfr))),
     quality |-> NeutralQuality,
     reason |-> "Combined evaluation parsed from text"]

\* _combined_filter, given what its one self.client.run call produced
combined_filter(resp) ==
    IF resp.transport_error THEN ErrorResult
    ELSE LET parsed == parse_json_response(resp)
         IN  IF parsed # None /\ Truthy(parsed)
             THEN IF \E k \in ScoreKeys : FloatRaises(parsed, k)
                  THEN ErrorResult
                  ELSE StructuredResult(parsed)
             ELSE TextScanResult(resp.labelled)

(***************************************************************************)
(* apply_three_stage_filter: thresholds, decision, composite score         *)
(***************************************************************************)
DefaultPkrThreshold == 70
DefaultLfrThreshold == 80
DefaultSlfrThreshold == 80

\* self.cfg.get(key, default)
cfg_get(c, key, default) == IF c[key].set THEN F(c[key].v) ELSE F(default)

pkr_threshold(c) == cfg_get(c, "pkr_threshold", DefaultPkrThreshold)
lfr_threshold(c) == cfg_get(c, "lfr_threshold", DefaultLfrThreshold)
slfr_threshold(c) == cfg_get(c, "slfr_threshold", DefaultSlfrThreshold)

StageFailed(cr, c) ==
    IF Lt(cr.pkr, pkr_threshold(c)) THEN "C2"
    ELSE IF Lt(cr.lfr, lfr_threshold(c)) \/ Lt(cr.slfr, slfr_threshold(c)) THEN "C3"
    ELSE "None"

FilterReason(cr, c) ==
    IF Lt(cr.pkr, pkr_threshold(c)) THEN "Pattern violation"
    ELSE IF Lt(cr.lfr, lfr_threshold(c)) \/ Lt(cr.slfr, slfr_threshold(c))
         THEN "Label flip issues"
    ELSE cr.reason

PassAll(cr, c) ==
    /\ Ge(cr.pkr, pkr_threshold(c))
    /\ Ge(cr.lfr, lfr_threshold(c))
    /\ Ge(cr.slfr, slfr_threshold(c))

\* faulty variant: the weights of pkr and lfr are exchanged
OverallScore_SwappedWeights(cr) ==
    LET q == cr.quality
        anyNaN == cr.pkr.nan \/ cr.lfr.nan \/ cr.slfr.nan \/ \E k \in QualityKeys : q[k].nan
        qsum == q["minimality"].v + q["fluency"].v + q["label_determinism"].v
                    + q["faithfulness"].v
    IN  IF anyNaN THEN NaN
        ELSE F(140 * cr.pkr.v + 100 * cr.lfr.v + 100 * cr.slfr.v + 15 * qsum)

\* pkr*0.25 + lfr*0.35 + slfr*0.25 + quality_avg*0.15 in units of 1/40000, where
\* quality_avg = sum(quality.values()) / len(quality); NaN propagates
OverallScore(cr) ==
    LET q == cr.quality
        anyNaN == cr.pkr.nan \/ cr.lfr.nan \/ cr.slfr.nan \/ \E k \in QualityKeys : q[k].nan
        qsum == q["minimality"].v + q["fluency"].v + q["label_determinism"].v
                    + q["faithfulness"].v
    IN  IF anyNaN THEN NaN
        ELSE F(100 * cr.pkr.v + 140 * cr.lfr.v + 100 * cr.slfr.v + 15 * qsum)

\* faulty variant: a rejected text keeps the neutral PKR default
C1FailResult_NeutralPkr(c1r) ==
    [pass_all |-> FALSE, stage_failed |-> "C1", reason |-> c1r.reason,
     pkr |-> F(DefaultPkr), lfr |-> F(0), slfr |-> F(0), score |-> F(0),
     details |-> [c1 |-> c1r]]

\* the record returned when the gate rejects the text
C1FailResult(c1r) ==
    [pass_all |-> FALSE, stage_failed |-> "C1", reason |-> c1r.reason,
     pkr |-> F(0), lfr |-> F(0), slfr |-> F(0), score |-> F(0),
     details |-> [c1 |-> c1r]]

\* faulty variant: the scores of a failed stage are left out of the composite score
FilterResult_ZeroFailed(c1r, cr, c) ==
    LET failed == StageFailed(cr, c)
        counted == [cr EXCEPT !.pkr = IF failed = "C2" THEN F(0) ELSE cr.pkr,
                              !.lfr = IF failed = "C3" THEN F(0) ELSE cr.lfr,
                              !.slfr = IF failed = "C3" THEN F(0) ELSE cr.slfr]
    IN  [pass_all |-> PassAll(cr, c), stage_failed |-> failed,
         reason |-> FilterReason(cr, c),
         pkr |-> cr.pkr, lfr |-> cr.lfr, slfr |-> cr.slfr,
         score |-> OverallScore(counted),
         details |-> [c1 |-> c1r, combined |-> cr]]

\* the record returned after the combined evaluation
FilterResult(c1r, cr, c) ==
    [pass_all |-> PassAll(cr, c), stage_failed |-> StageFailed(cr, c),
     reason |-> FilterReason(cr, c),
     pkr |-> cr.pkr, lfr |-> cr.lfr, slfr |-> cr.slfr, score |-> OverallScore(cr),
     details |-> [c1 |-> c1r, combined |-> cr]]

\* apply_three_stage_filter as a function of the text, the configuration and what
\* the evaluation request (made only when the gate passes) produces
apply_three_stage_filter(t, c, resp) ==
    LET c1r == stage_c1_heuristic_filter(t)
    IN  IF ~c1r.pass THEN C1FailResult(c1r)
        ELSE FilterResult(c1r, combined_filter(resp), c)

(***************************************************************************)
(* Inputs                                                                  *)
(***************************************************************************)
MaxFragments == 2   \* a gate text is made of at most this many fragments
MaxLabelled == 2    \* a response holds at most this many labelled numbers

Hello == <<"h","e","l","l","o">>
LabelColon == <<"L","a","b","e","l",":">>
GoGo == <<"g","o"," ","g","o"," ">>
GoNo == <<"g","o"," ","n","o"," ">>
GoGoNo == <<"g","o"," ","g","o"," ","n","o"," ">>
NoSoGo == <<"n","o"," ","s","o"," ","g","o"," ">>
\* the text  ```json\n{"x":1}```
FencedJson ==
    <<"BQ","BQ","BQ","j","s","o","n","NL","{","\"","x","\"",":","1","}","BQ","BQ","BQ">>

Fragments ==
    { Hello, <<"a">>, <<" ">>, <<"\"">>, <<".">>, <<".", ".">>, <<"U2026">>,
      LabelColon, <<"g","e","n","e","r","a","t","e">>, <<"j","s","o","n">>,
      <<"BQ","BQ","BQ">>, <<"{">>, <<"U4E2D">>, GoGo, GoNo, GoGoNo, NoSoGo, FencedJson }

RECURSIVE TextsUpTo(_)
TextsUpTo(n) ==
    IF n = 0 THEN {<<>>}
    ELSE LET prev == TextsUpTo(n - 1)
         IN  prev \cup {t \o f : t \in prev, f \in Fragments}

\* the texts the heuristic gate is run on
Texts == TextsUpTo(MaxFragments)

\* the counterfactual texts handed to apply_three_stage_filter: texts that pass the
\* gate and one text for every way of failing it
CandidateTexts ==
    { Hello, Hello \o <<"U2026">>,
      <<"a">>, Hello \o <<"\"">>, Hello \o <<".", ".">>, LabelColon \o Hello,
      GoGo \o GoGo, Hello \o <<"{">>, FencedJson, Hello \o <<"U4E2D">> }

NotSet == [set |-> FALSE, v |-> 0]
SetTo(v) == [set |-> TRUE, v |-> v]

Cfgs ==
    { [pkr_threshold |-> NotSet, lfr_threshold |-> NotSet, slfr_threshold |-> NotSet],
      [pkr_threshold |-> SetTo(85), lfr_threshold |-> NotSet, slfr_threshold |-> SetTo(90)],
      [pkr_threshold |-> SetTo(0), lfr_threshold |-> SetTo(100), slfr_threshold |-> NotSet],
      [pkr_threshold |-> SetTo(50), lfr_threshold |-> SetTo(0), slfr_threshold |-> SetTo(0)] }

PkrRaws == {Absent, Num(69), Num(70), Num(85), Num(90), Num(8500), RawNaN, Bad}
LfrRaws == {Absent, Num(79), Num(80), Num(90), Num(92), Num(-50), RawNaN}
SlfrRaws == {Absent, Num(79), Num(80), Num(88), Num(90), Num(8500), RawNaN}

Quality(m, f, l, t) ==
    [minimality |-> m, fluency |-> f, label_determinism |-> l, faithfulness |-> t]

QualityRaws ==
    { Quality(Absent, Absent, Absent, Absent),
      Quality(Num(90), Num(90), Num(90), Num(90)),
      Quality(Num(80), Num(90), Num(90), Num(85)),
      Quality(Num(150), Num(-20), Num(50), Num(8500)),
      Quality(RawNaN, Num(90), Num(90), Num(90)),
      Quality(Num(90), Bad, Num(90), Num(90)) }

Dict(p, l, s, q, reason, extra) ==
    [pkr_score |-> p, lfr_score |-> l, slfr_score |-> s,
     minimality |-> q.minimality, fluency |-> q.fluency,
     label_determinism |-> q.label_determinism, faithfulness |-> q.faithfulness,
     overall_reason |-> reason, extra |-> extra]

CompletedReason == "Combined evaluation completed"

\* {} and an object with none of the keys the evaluator reads
EmptyDict == Dict(Absent, Absent, Absent, Quality(Absent, Absent, Absent, Absent),
                  CompletedReason, FALSE)
OtherKeysDict == Dict(Absent, Absent, Absent, Quality(Absent, Absent, Absent, Absent),
                      CompletedReason, TRUE)

Dicts ==
    {Dict(p, l, s, q, r, FALSE) :
        p \in PkrRaws, l \in LfrRaws, s \in SlfrRaws, q \in QualityRaws,
        r \in {CompletedReason, "reason given by the model"}}
      \cup {OtherKeysDict}

LabelledNumbers == [label : {"pkr", "lfr", "slfr"}, v : {50, 8500, 25000}]

RECURSIVE SeqsUpTo(_, _)
SeqsUpTo(S, n) ==
    IF n = 0 THEN {<<>>}
    ELSE LET prev == SeqsUpTo(S, n - 1)
         IN  prev \cup {Append(q, x) : q \in prev, x \in S}

TransportError ==
    [transport_error |-> TRUE, parse |-> "none", fields |-> EmptyDict, labelled |-> <<>>]

StructuredResponses ==
    {[transport_error |-> FALSE, parse |-> "strict_ok", fields |-> d, labelled |-> <<>>] :
        d \in Dicts \ {EmptyDict}}

UnstructuredResponses ==
    {[transport_error |-> FALSE, parse |-> k, fields |-> EmptyDict, labelled |-> ls] :
        k \in {"strict_ok", "repairable", "unparseable", "no_braces"},
        ls \in SeqsUpTo(LabelledNumbers, MaxLabelled)}

\* what one self.client.run call of the evaluator can produce
Responses == StructuredResponses \cup UnstructuredResponses \cup {TransportError}

(***************************************************************************)
(* One call of apply_three_stage_filter, step by step                      *)
(***************************************************************************)
NoValue == [unset |-> TRUE]

\* the variables of the filter call before any call
FilterIdle(p) ==
    /\ pc = p
    /\ text = <<>>
    /\ cfg = [pkr_threshold |-> NotSet, lfr_threshold |-> NotSet, slfr_threshold |-> NotSet]
    /\ c1_result = NoValue
    /\ combined_result = NoValue
    /\ result = NoValue
    /\ response = NoValue
    /\ requests = 0
    /\ c1_evaluated = FALSE

\* the variables of the batch run when no batch is running
BatchIdle ==
    /\ bpc = "none"
    /\ labels = <<>>
    /\ rows = <<>>
    /\ row = 0
    /\ to_label = "none"
    /\ cf_candidates = <<>>
    /\ idx = 0
    /\ cf_label = "none"
    /\ best_candidate = None
    /\ best_score = F(0)
    /\ candidates = <<>>
    /\ counts = [generated |-> 0, empty_cf |-> 0, failed_filter |-> 0]
    /\ pool_file = NoValue

\* ~vecs.available: the embedder is not available
NoVecs == [available |-> FALSE, v |-> <<>>]

\* the variables of the selection run when no selection is running
SelectIdle ==
    /\ spc = "none"
    /\ sel_candidates = <<>>
    /\ args_k = 0
    /\ diversity_threshold = 0
    /\ vecs = NoVecs
    /\ order = <<>>
    /\ pos = 0
    /\ selected_idx = <<>>
    /\ selected = <<>>
    /\ demos_file = NoValue

\* a dict as the set of its entries; {} is the empty dict
NoPatterns == {}

\* a file that does not exist
AbsentFile == [state |-> "absent", patterns |-> NoPatterns]

\* the variables of the pattern learner when learn_all_patterns is not running
LearnIdle ==
    /\ lpc = "none"
    /\ force_relearn = FALSE
    /\ all_labels = <<>>
    /\ label_examples = <<>>
    /\ store_file = AbsentFile
    /\ latest_link = "absent"
    /\ store_before = AbsentFile
    /\ existing_patterns = None
    /\ all_patterns = NoPatterns
    /\ li = 0
    /\ learn_requests = 0
    /\ store_writes = 0
    /\ store_reads = 0
    /\ returned = NoValue

\* the variables of the remaining components when none of them is running
IdentifyVarsIdle ==
    /\ ipc = "none"
    /\ id_patterns = NoPatterns
    /\ original_label = "none"
    /\ candidate_info = NoValue

ClientVarsIdle ==
    /\ cpc = "none"
    /\ retries = 0
    /\ attempt = 0
    /\ attempt_log = <<>>
    /\ sleeps = <<>>
    /\ run_result = NoValue

DirVarsIdle ==
    /\ kpc = "none"
    /\ patterns_dir = {}
    /\ load_key = NoValue
    /\ load_result = None
    /\ saves = 0

ExtractVarsIdle ==
    /\ xpc = "none"
    /\ extractor = "none"
    /\ raw = <<>>
    /\ json_str = <<>>
    /\ parses = 0
    /\ repairs = 0
    /\ extracted = NoValue

OtherIdle == IdentifyVarsIdle /\ ClientVarsIdle /\ DirVarsIdle /\ ExtractVarsIdle

Init == FilterIdle("idle") /\ BatchIdle /\ SelectIdle /\ LearnIdle /\ OtherIdle

\* the caller hands a text to a filter built with some configuration
Call(t, c) ==
    /\ pc = "idle"
    /\ text' = t
    /\ cfg' = c
    /\ pc' = "c1"
    /\ UNCHANGED <<c1_result, combined_result, result, response, requests, c1_evaluated>>
    /\ UNCHANGED <<batchVars, selectVars, learnVars, otherVars>>

\* faulty variant: the evaluation request is made whatever the gate says
StageC1_NoEarlyReturn ==
    /\ pc = "c1"
    /\ c1_result' = stage_c1_heuristic_filter(text)
    /\ c1_evaluated' = TRUE
    /\ pc' = "combined"
    /\ UNCHANGED <<text, cfg, combined_result, result, response, requests>>
    /\ UNCHANGED <<batchVars, selectVars, learnVars, otherVars>>

\* stage C1, and the early return when it rejects
StageC1 ==
    /\ pc = "c1"
    /\ c1_result' = stage_c1_heuristic_filter(text)
    /\ c1_evaluated' = TRUE
    /\ IF c1_result'.pass
       THEN pc' = "combined" /\ UNCHANGED result
       ELSE pc' = "done" /\ result' = C1FailResult(c1_result')
    /\ UNCHANGED <<text, cfg, combined_result, response, requests>>
    /\ UNCHANGED <<batchVars, selectVars, learnVars, otherVars>>

\* _combined_filter: the one self.client.run call and the scores drawn from it
CombinedFilter(resp) ==
    /\ pc = "combined"
    /\ response' = resp
    /\ requests' = requests + 1
    /\ combined_result' = combined_filter(resp)
    /\ pc' = "decide"
    /\ UNCHANGED <<text, cfg, c1_result, result, c1_evaluated>>
    /\ UNCHANGED <<batchVars, selectVars, learnVars, otherVars>>

\* thresholds, stage_failed, pass_all, composite score, return
Decide ==
    /\ pc = "decide"
    /\ result' = FilterResult(c1_result, combined_result, cfg)
    /\ pc' = "done"
    /\ UNCHANGED <<text, cfg, c1_result, combined_result, response, requests, c1_evaluated>>
    /\ UNCHANGED <<batchVars, selectVars, learnVars, otherVars>>

Next ==
    \/ \E t \in CandidateTexts, c \in Cfgs : Call(t, c)
    \/ StageC1
    \/ \E resp \in Responses : CombinedFilter(resp)
    \/ Decide

Spec == Init /\ [][Next]_vars

(***************************************************************************)
(* The heuristic gate alone, over every text of the bounded set            *)
(***************************************************************************)
InitGate == FilterIdle("gate") /\ BatchIdle /\ SelectIdle /\ LearnIdle /\ OtherIdle

GateRun(t) ==
    /\ pc = "gate"
    /\ text' = t
    /\ c1_result' = stage_c1_heuristic_filter(t)
    /\ c1_evaluated' = TRUE
    /\ pc' = "gate_done"
    /\ UNCHANGED <<cfg, combined_result, result, response, requests>>
    /\ UNCHANGED <<batchVars, selectVars, learnVars, otherVars>>

NextGate == \E t \in Texts : GateRun(t)

SpecGate == InitGate /\ [][NextGate]_vars

(***************************************************************************)
(* make_demos.main: the batch loop over the sampled training examples,     *)
(* with the generator (generate_cf_with_patterns) and the annotator        *)
(* (annotate_label).  A request is one OllamaClient.run call; it either    *)
(* returns a text or raises the transport error left after its retries.    *)
(***************************************************************************)
MaxRows == 2    \* number of sampled training examples
MaxCands == 2   \* counterfactual proposals in one generator response

\* _strict_json of the generator and of the annotator: a strict parse, and on
\* json.JSONDecodeError one repair of the escapes and one more strict parse;
\* ValueError when there are no braces or both parses fail
strict_json_raises(resp) == resp.parse \notin {"strict_ok", "repairable"}

\* task_cfg["labels"]: two labels in either order, or three
LabelSets == { <<"joy", "anger">>, <<"anger", "joy">>, <<"joy", "anger", "fear">> }
\* the label column of the training data: a task label, or a value that is none
RowLabels == {"joy", "unknown"}

Range(f) == {f[i] : i \in DOMAIN f}

\* the proposals a generator response can hold: text that passes the gate, text the
\* gate rejects, and text that is empty once stripped
ProposalTexts == { Hello, <<"a">>, <<" ">> }

GenResponses ==
    {[transport_error |-> TRUE, parse |-> "none", counterfactuals |-> <<>>]}
      \cup {[transport_error |-> FALSE, parse |-> k, counterfactuals |-> <<>>] :
                k \in {"unparseable", "no_braces"}}
      \cup {[transport_error |-> FALSE, parse |-> "strict_ok", counterfactuals |-> cs] :
                cs \in SeqsUpTo(ProposalTexts, MaxCands)}
      \cup {[transport_error |-> FALSE, parse |-> "repairable", counterfactuals |-> <<Hello>>]}

\* ann.get("label", None) of an annotator response
AnnResponses(ls) ==
    {[transport_error |-> TRUE, parse |-> "none", label |-> "none"]}
      \cup {[transport_error |-> FALSE, parse |-> "unparseable", label |-> "none"]}
      \cup {[transport_error |-> FALSE, parse |-> k, label |-> l] :
                k \in {"strict_ok", "repairable"}, l \in Range(ls) \cup {"none"}}

Scores(p, l, s, q) ==
    [transport_error |-> FALSE, parse |-> "strict_ok", labelled |-> <<>>,
     fields |-> Dict(Num(p), Num(l), Num(s), Quality(Num(q), Num(q), Num(q), Num(q)),
                     CompletedReason, FALSE)]

\* what the evaluator's request can produce in a batch run
BatchResponses ==
    { TransportError, Scores(90, 90, 90, 90), Scores(85, 92, 88, 80) }

InitBatch ==
    /\ FilterIdle("batch")
    /\ OtherIdle
    /\ SelectIdle
    /\ LearnIdle
    /\ bpc = "loop"
    /\ labels \in LabelSets
    /\ rows \in {r \in SeqsUpTo(RowLabels, MaxRows) : r # <<>>}
    /\ row = 1
    /\ to_label = "none"
    /\ cf_candidates = <<>>
    /\ idx = 0
    /\ cf_label = "none"
    /\ best_candidate = None
    /\ best_score = F(0)
    /\ candidates = <<>>
    /\ counts = [generated |-> 0, empty_cf |-> 0, failed_filter |-> 0]
    /\ pool_file = NoValue

\* "continue" of the outer loop after a failed or empty generation
SkipExample ==
    /\ counts' = [counts EXCEPT !.empty_cf = @ + 1]
    /\ row' = row + 1
    /\ bpc' = "loop"
    /\ UNCHANGED <<cf_candidates, idx, best_candidate, best_score>>

\* start of the inner loop over the proposals
StartProposals(cs) ==
    IF cs = <<>> THEN SkipExample
    ELSE /\ cf_candidates' = cs
         /\ idx' = 1
         /\ best_candidate' = None
         /\ best_score' = F(0)
         /\ bpc' = "cand"
         /\ UNCHANGED <<row, counts>>

\* head of the for loop: end of the examples, a row with an invalid label, or the
\* choice of the target label
LoopHead ==
    /\ bpc = "loop"
    /\ IF row > Len(rows)
       THEN bpc' = "summary" /\ UNCHANGED <<row, to_label, counts>>
       ELSE IF rows[row] \notin Range(labels)
            THEN bpc' = "loop" /\ row' = row + 1 /\ UNCHANGED <<to_label, counts>>
            ELSE /\ IF Len(labels) = 2
                    THEN to_label' = IF rows[row] = labels[1] THEN labels[2] ELSE labels[1]
                    ELSE to_label' \in Range(labels) \ {rows[row]}
                 /\ counts' = [counts EXCEPT !.generated = @ + 1]
                 /\ bpc' = "generate1"
                 /\ UNCHANGED row
    /\ UNCHANGED <<labels, rows, cf_candidates, idx, cf_label, best_candidate, best_score,
                   candidates, pool_file>>
    /\ UNCHANGED <<filterVars, selectVars, learnVars, otherVars>>

\* generate_cf_with_patterns, first request (retries=1); main catches what it raises
Generate1(out) ==
    /\ bpc = "generate1"
    /\ IF out.transport_error THEN SkipExample
       ELSE IF strict_json_raises(out)
            THEN bpc' = "generate2"
                    /\ UNCHANGED <<row, counts, cf_candidates, idx, best_candidate, best_score>>
            ELSE StartProposals(out.counterfactuals)
    /\ UNCHANGED <<labels, rows, to_label, cf_label, candidates, pool_file>>
    /\ UNCHANGED <<filterVars, selectVars, learnVars, otherVars>>

\* generate_cf_with_patterns, second request (retries=0) after a parse failure
Generate2(out) ==
    /\ bpc = "generate2"
    /\ IF out.transport_error \/ strict_json_raises(out) THEN SkipExample
       ELSE StartProposals(out.counterfactuals)
    /\ UNCHANGED <<labels, rows, to_label, cf_label, candidates, pool_file>>
    /\ UNCHANGED <<filterVars, selectVars, learnVars, otherVars>>

\* head of the inner loop: end of the proposals, or an empty text
CandHead ==
    /\ bpc = "cand"
    /\ IF idx > Len(cf_candidates) THEN bpc' = "endrow" /\ UNCHANGED idx
       ELSE IF Strip(cf_candidates[idx]) = <<>> THEN bpc' = "cand" /\ idx' = idx + 1
       ELSE bpc' = "annotate1" /\ UNCHANGED idx
    /\ UNCHANGED <<labels, rows, row, to_label, cf_candidates, cf_label, best_candidate,
                   best_score, candidates, counts, pool_file>>
    /\ UNCHANGED <<filterVars, selectVars, learnVars, otherVars>>

\* faulty variant: a proposal goes to the filter whatever label the annotator gave
CheckLabel_NoCheck(l) ==
    /\ cf_label' = l
    /\ bpc' = "filter" /\ UNCHANGED idx

\* if cf_label != to_label: continue
CheckLabel(l) ==
    /\ cf_label' = l
    /\ IF l # to_label THEN bpc' = "cand" /\ idx' = idx + 1
       ELSE bpc' = "filter" /\ UNCHANGED idx

\* annotate_label, first request (retries=1): it is outside the try statement, so the
\* transport error leaves annotate_label and main
Annotate1(out) ==
    /\ bpc = "annotate1"
    /\ IF out.transport_error THEN bpc' = "aborted" /\ UNCHANGED <<idx, cf_label>>
       ELSE IF strict_json_raises(out) THEN bpc' = "annotate2" /\ UNCHANGED <<idx, cf_label>>
       ELSE CheckLabel(out.label)
    /\ UNCHANGED <<labels, rows, row, to_label, cf_candidates, best_candidate, best_score,
                   candidates, counts, pool_file>>
    /\ UNCHANGED <<filterVars, selectVars, learnVars, otherVars>>

\* annotate_label, second request (retries=0): any failure gives the first label
Annotate2(out) ==
    /\ bpc = "annotate2"
    /\ IF out.transport_error \/ strict_json_raises(out) THEN CheckLabel(labels[1])
       ELSE CheckLabel(out.label)
    /\ UNCHANGED <<labels, rows, row, to_label, cf_candidates, best_candidate, best_score,
                   candidates, counts, pool_file>>
    /\ UNCHANGED <<filterVars, selectVars, learnVars, otherVars>>

\* vt_filter.apply_three_stage_filter on the proposal, and "keep the best scoring"
Filter(resp) ==
    /\ bpc = "filter"
    /\ LET cf_text == Strip(cf_candidates[idx])
           r == apply_three_stage_filter(cf_text, cfg, resp)
       IN  IF r.pass_all /\ Gt(r.score, best_score)
           THEN /\ best_score' = r.score
                /\ best_candidate' = [text |-> cf_text, label |-> cf_label,
                                      score |-> r.score, filter |-> r.details,
                                      pkr |-> r.pkr, lfr |-> r.lfr, slfr |-> r.slfr]
           ELSE UNCHANGED <<best_candidate, best_score>>
    /\ idx' = idx + 1
    /\ bpc' = "cand"
    /\ UNCHANGED <<labels, rows, row, to_label, cf_candidates, cf_label, candidates,
                   counts, pool_file>>
    /\ UNCHANGED <<filterVars, selectVars, learnVars, otherVars>>

\* faulty variant: the best proposal is put in front of the pool
EndRow_Prepend ==
    /\ bpc = "endrow"
    /\ IF best_candidate # None
       THEN /\ candidates' = <<[original |-> row, original_label |-> rows[row],
                              counterfactual |-> best_candidate.text,
                              counterfactual_label |-> best_candidate.label,
                              score |-> best_candidate.score,
                              filter |-> best_candidate.filter]>> \o candidates
            /\ UNCHANGED counts
       ELSE /\ counts' = [counts EXCEPT !.failed_filter = @ + 1]
            /\ UNCHANGED candidates
    /\ row' = row + 1
    /\ bpc' = "loop"
    /\ UNCHANGED <<labels, rows, to_label, cf_candidates, idx, cf_label, best_candidate,
                   best_score, pool_file>>
    /\ UNCHANGED <<filterVars, selectVars, learnVars, otherVars>>

\* after the inner loop: pool the best proposal, or count the example as failed
EndRow ==
    /\ bpc = "endrow"
    /\ IF best_candidate # None
       THEN /\ candidates' = Append(candidates,
                                 [original |-> row, original_label |-> rows[row],
                                  counterfactual |-> best_candidate.text,
                                  counterfactual_label |-> best_candidate.label,
                                  score |-> best_candidate.score,
                                  filter |-> best_candidate.filter])
            /\ UNCHANGED counts
       ELSE /\ counts' = [counts EXCEPT !.failed_filter = @ + 1]
            /\ UNCHANGED candidates
    /\ row' = row + 1
    /\ bpc' = "loop"
    /\ UNCHANGED <<labels, rows, to_label, cf_candidates, idx, cf_label, best_candidate,
                   best_score, pool_file>>
    /\ UNCHANGED <<filterVars, selectVars, learnVars, otherVars>>

\* the summary and write_json(all_candidates_path, candidates)
WritePool ==
    /\ bpc = "summary"
    /\ pool_file' = candidates
    /\ bpc' = "finished"
    /\ UNCHANGED <<labels, rows, row, to_label, cf_candidates, idx, cf_label,
                   best_candidate, best_score, candidates, counts>>
    /\ UNCHANGED <<filterVars, selectVars, learnVars, otherVars>>

NextBatch ==
    \/ LoopHead
    \/ \E out \in GenResponses : Generate1(out)
    \/ \E out \in GenResponses : Generate2(out)
    \/ CandHead
    \/ \E out \in AnnResponses(labels) : Annotate1(out)
    \/ \E out \in AnnResponses(labels) : Annotate2(out)
    \/ \E resp \in BatchResponses : Filter(resp)
    \/ EndRow
    \/ WritePool

SpecBatch == InitBatch /\ [][NextBatch]_vars

(***************************************************************************)
(* Properties                                                              *)
(***************************************************************************)
Returned == pc = "done"
Evaluated == pc \in {"decide", "done"} /\ c1_result.pass
DefaultCfg == \A k \in DOMAIN cfg : ~cfg[k].set

Threshold(key, default) == IF cfg[key].set THEN F(cfg[key].v) ELSE F(default)
QSum(q) == q["minimality"].v + q["fluency"].v + q["label_determinism"].v
               + q["faithfulness"].v
AnyNaN(cr) ==
    cr.pkr.nan \/ cr.lfr.nan \/ cr.slfr.nan \/ \E k \in QualityKeys : cr.quality[k].nan
InUnit(x) == ~x.nan /\ 0 <= x.v /\ x.v <= 100

\* C1: a candidate that passed the gate fails at C2 when pkr is below pkr_threshold,
\* else at C3 when lfr or slfr is below its threshold, else it passes; the thresholds
\* are 0.7/0.8/0.8 when not configured and a score equal to its threshold does not fail.
C1_ThresholdDecision ==
    Returned /\ c1_result.pass =>
        LET pt == Threshold("pkr_threshold", 70)
            lt == Threshold("lfr_threshold", 80)
            st == Threshold("slfr_threshold", 80)
        IN  IF Lt(result.pkr, pt)
            THEN result.stage_failed = "C2" /\ ~result.pass_all
            ELSE IF Lt(result.lfr, lt) \/ Lt(result.slfr, st)
                 THEN result.stage_failed = "C3" /\ ~result.pass_all
                 ELSE result.stage_failed = "None" /\ result.pass_all

\* C2: when the gate rejects the text the filter returns pass_all = False, stage C1,
\* the gate's reason, and 0.0 for the composite score, pkr, lfr and slfr.
C2_GateRejectionZeroes ==
    Returned /\ ~stage_c1_heuristic_filter(text).pass =>
        /\ result.pass_all = FALSE
        /\ result.stage_failed = "C1"
        /\ result.reason = stage_c1_heuristic_filter(text).reason
        /\ result.reason # PassedReason
        /\ result.score = F(0)
        /\ result.pkr = F(0) /\ result.lfr = F(0) /\ result.slfr = F(0)

C2_Witness ==
    Returned /\ text = FencedJson /\ result.stage_failed = "C1"

\* C3: for a candidate that passed the gate, failed later or not, the composite score
\* is 0.25*pkr + 0.35*lfr + 0.25*slfr + 0.15*mean(quality); all inputs 0.9 give 0.9,
\* and 0.85/0.92/0.88 with quality 0.8, 0.9, 0.9, 0.85 pass with 0.883875.
C3_CompositeFormula ==
    Returned /\ c1_result.pass =>
        LET cr == combined_result
        IN  /\ result.score.nan = AnyNaN(cr)
            /\ ~AnyNaN(cr) =>
                   \* 40000 * score: the weights are hundredths, mean(quality) = QSum / 4
                   result.score.v = 4 * (25 * result.pkr.v + 35 * result.lfr.v
                                            + 25 * result.slfr.v)
                                        + 15 * QSum(cr.quality)
            /\ (\A m \in {cr.pkr, cr.lfr, cr.slfr} : m = F(90))
                  /\ (\A k \in QualityKeys : cr.quality[k] = F(90))
                  => result.score = F(36000)
            /\ cr.pkr = F(85) /\ cr.lfr = F(92) /\ cr.slfr = F(88)
                  /\ QSum(cr.quality) = 345 /\ ~AnyNaN(cr) /\ DefaultCfg
                  => result.pass_all /\ result.score = F(35355)

C3_Witness ==
    /\ Returned /\ c1_result.pass /\ DefaultCfg
    /\ combined_result.pkr = F(85) /\ combined_result.lfr = F(92)
    /\ combined_result.slfr = F(88)
    /\ combined_result.quality = Quality(F(80), F(90), F(90), F(85))
    /\ result.pass_all /\ result.score = F(35355)

\* C4 as stated: a failed stage's weight contributes 0.0 to the composite score (the
\* pkr term when C2 fails, the lfr and slfr terms when C3 fails; C1 zeroes everything).
C4_FailedStageContributesZero ==
    Returned =>
        /\ result.stage_failed = "C1" => result.score = F(0)
        /\ result.stage_failed = "C2" /\ ~result.score.nan =>
               result.score.v = 140 * result.lfr.v + 100 * result.slfr.v
                                    + 15 * QSum(combined_result.quality)
        /\ result.stage_failed = "C3" /\ ~result.score.nan =>
               result.score.v = 100 * result.pkr.v + 15 * QSum(combined_result.quality)

\* C4 amended: only a C1 failure zeroes the score; when C2 or C3 fails, the failed
\* stage's scores still enter the composite score with their full weight.
C4_OnlyGateFailureZeroes ==
    Returned =>
        /\ result.stage_failed = "C1" => result.score = F(0)
        /\ result.stage_failed = "C2" /\ ~result.score.nan =>
               result.score.v - (140 * result.lfr.v + 100 * result.slfr.v
                                    + 15 * QSum(combined_result.quality))
                   = 100 * result.pkr.v
        /\ result.stage_failed = "C3" /\ ~result.score.nan =>
               result.score.v - (100 * result.pkr.v + 15 * QSum(combined_result.quality))
                   = 140 * result.lfr.v + 100 * result.slfr.v
        /\ result.stage_failed \in {"C2", "C3"} =>
               result.score.nan = AnyNaN(combined_result)

C4_Witness ==
    /\ Returned /\ result.stage_failed = "C2"
    /\ result.pkr = F(69) /\ ~result.score.nan
    /\ result.score.v > 140 * result.lfr.v + 100 * result.slfr.v
                            + 15 * QSum(combined_result.quality)

\* C5: every score of the semantic evaluator, and the composite score, lies in [0,1]
\* on the structured path, the text-scan path and the request-failure path.
C5_ScoresInUnitInterval ==
    Evaluated =>
        /\ InUnit(combined_result.pkr)
        /\ InUnit(combined_result.lfr)
        /\ InUnit(combined_result.slfr)
        /\ \A k \in QualityKeys : InUnit(combined_result.quality[k])
        /\ Returned => ~result.score.nan /\ 0 <= result.score.v /\ result.score.v <= 40000

\* C6: a raw score above 1.0 is divided by 100 before clamping on every extraction
\* path, so that a raw 85 yields 0.85.
C6_PercentNormalised ==
    Evaluated /\ ~response.transport_error =>
        LET d == response.fields
            structured == response.parse = "strict_ok" /\ Truthy(d)
                              /\ ~\E k \in ScoreKeys : FloatRaises(d, k)
            scanned == ~(response.parse = "strict_ok" /\ Truthy(d))
            m(k) == Search(k, response.labelled)
        IN  /\ structured =>
                /\ d.pkr_score = Num(8500) => combined_result.pkr = F(85)
                /\ d.slfr_score = Num(8500) => combined_result.slfr = F(85)
                /\ d.faithfulness = Num(8500) => combined_result.quality["faithfulness"] = F(85)
            /\ scanned =>
                \A k \in {"pkr", "lfr", "slfr"} :
                    m(k) # 0 /\ response.labelled[m(k)].v = 8500 => combined_result[k] = F(85)

\* a response from which the evaluator recovers nothing: the request failed, a value
\* is no number, or there is neither a non-empty object nor a labelled number
Uninterpretable(resp) ==
    \/ resp.transport_error
    \/ resp.parse = "strict_ok" /\ \E k \in ScoreKeys : resp.fields[k].kind = "bad"
    \/ /\ resp.parse # "strict_ok" \/ resp.fields = EmptyDict
       /\ resp.labelled = <<>>

\* C7: the semantic evaluator never raises; when the request fails or nothing can be
\* read from the response it returns pkr 0.5, lfr 0.0, slfr 0.0 and quality 0.5, and
\* under the default thresholds the candidate is then rejected.
C7_FailureGivesDefault ==
    Evaluated /\ Uninterpretable(response) =>
        /\ combined_result.pkr = F(50)
        /\ combined_result.lfr = F(0)
        /\ combined_result.slfr = F(0)
        /\ \A k \in QualityKeys : combined_result.quality[k] = F(50)
        /\ Returned /\ DefaultCfg => ~result.pass_all /\ result.stage_failed # "None"

C7_Witness ==
    Returned /\ response = TransportError /\ DefaultCfg /\ result.stage_failed = "C2"

\* C9: a filter call makes exactly one evaluation request when the text passes the
\* gate and none when the gate rejects it, and the gate runs before any request.
C9_OneRequestAfterGate ==
    /\ requests > 0 => c1_evaluated /\ c1_result.pass
    /\ Returned => requests = (IF stage_c1_heuristic_filter(text).pass THEN 1 ELSE 0)
    /\ requests <= 1

C9_Witness ==
    Returned /\ requests = 1 /\ c1_evaluated /\ result.stage_failed # "C1"

\* the conditions of the seven rejection rules, in the order of the design, and
\* their reasons
RuleHolds(i, t) ==
    CASE i = 1 -> Len(Strip(t)) < 5
      [] i = 2 -> Count(t, "\"") % 2 = 1
      [] i = 3 -> EndsWith(t, <<".", ".">>)
      [] i = 4 -> \E ind \in prompt_indicators : StartsWith(LowerStr(t), ind)
      [] i = 5 -> LET w == Split(t)
                  IN  Len(w) > 3 /\ \E x \in 1..Len(w) :
                          2 * Cardinality({y \in 1..Len(w) : w[y] = w[x]}) > Len(w)
      [] i = 6 -> \E ind \in json_indicators : Contains(t, ind)
      [] i = 7 -> \E x \in 1..Len(t) : t[x] \in CJKChars

RuleReason ==
    <<"Text too short", "Unmatched quotes", "Incomplete text (ellipsis)",
      "Prompt leakage", "Excessive word repetition", "JSON formatting remnants",
      "Non-English characters detected">>

\* C10: the gate's reason is that of the first rule, in the order too short, unmatched
\* quotes, truncated, prompt leakage, repetition, formatting remnants, wrong language,
\* whose condition holds; the text passes exactly when none holds; the fenced JSON
\* snippet is rejected for formatting remnants.
C10_FirstMatchingRuleWins ==
    pc = "gate_done" =>
        LET fired == {i \in 1..7 : RuleHolds(i, text)}
        IN  /\ c1_result.pass = (fired = {})
            /\ fired # {} =>
                   c1_result.reason = RuleReason[CHOOSE i \in fired : \A j \in fired : i <= j]
            /\ text = FencedJson =>
                   {1, 2, 3, 4, 5} \cap fired = {}
                       /\ c1_result = [pass |-> FALSE, reason |-> "JSON formatting remnants"]

C10_Witness ==
    /\ pc = "gate_done" /\ text = FencedJson
    /\ c1_result.reason = "JSON formatting remnants"

\* C8: a batch run always ends normally with the candidate pool written; a transport
\* failure in a generator, annotator or evaluator request costs at most the current
\* candidate, and the run goes on with the next example.
C8_BatchNeverAborts ==
    /\ bpc # "aborted"
    /\ bpc = "finished" => pool_file = candidates

\* C11: the heuristic gate rejects every text that is shorter than 5 characters, or
\* holds an odd number of double quotes, or ends with an ellipsis marker: the single
\* ellipsis character, or two or more trailing dots.
C11_GateRejectsMalformed ==
    (   /\ pc = "gate_done"
        /\ \/ Len(text) < 5
           \/ Count(text, "\"") % 2 = 1
           \/ EndsWith(text, <<"U2026">>)
           \/ EndsWith(text, <<".", ".">>)
    ) => ~c1_result.pass

(***************************************************************************)
(* select_top_k.main: the greedy diversity selection over the candidate    *)
(* pool.  Embedding vectors are integer direction vectors (cosine does not *)
(* depend on their length); a threshold is in hundredths.                  *)
(***************************************************************************)
MaxPool == 3
MaxK == 3

\* composite scores of pooled candidates, in units of 1/40000 (make_demos pools a
\* candidate only when its score is a number greater than 0.0)
PoolScores == {30000, 34000, 38000}
PoolTexts == {"cf1", "cf2", "cf3"}
PoolCandidates == [counterfactual : PoolTexts, score : PoolScores]

\* the candidate files: every pool of up to MaxPool candidates
Pools == SeqsUpTo(PoolCandidates, MaxPool)

\* --k and --diversity-threshold (0.9 by default)
Ks == 0..MaxK
DefaultDiversityThreshold == 90
DiversityThresholds == {50, DefaultDiversityThreshold, 100}

\* embedder.encode: one vector per text, the same text giving the same vector
Embed(t) ==
    CASE t = "cf1" -> <<1, 0>>
      [] t = "cf2" -> <<1, 1>>
      [] t = "cf3" -> <<0, 1>>

RECURSIVE Dot(_, _)
Dot(u, v) ==
    IF u = <<>> \/ v = <<>> THEN 0
    ELSE Head(u) * Head(v) + Dot(Tail(u), Tail(v))

\* cosine(u, v) > thr / 100, where cosine(u, v) = num / max(1e-9, du * dv) with
\* du * dv the square root of Dot(u, u) * Dot(v, v); compared exactly, by squares
cosine_exceeds(u, v, thr) ==
    LET num == Dot(u, v)
        sq  == Dot(u, u) * Dot(v, v)
    IN  IF sq = 0 THEN 0 > thr
        ELSE IF num >= 0
             THEN thr < 0 \/ 10000 * num * num > thr * thr * sq
             ELSE thr < 0 /\ 10000 * num * num < thr * thr * sq

\* faulty variant: the sort is ascending, the lowest score comes first
RECURSIVE InsertDesc_Ascending(_, _, _)
InsertDesc_Ascending(i, s, cands) ==
    IF s = <<>> THEN <<i>>
    ELSE IF cands[Head(s)].score <= cands[i].score
         THEN <<Head(s)>> \o InsertDesc_Ascending(i, Tail(s), cands)
         ELSE <<i>> \o s

\* list.insert of index i behind every index whose score is not smaller
RECURSIVE InsertDesc(_, _, _)
InsertDesc(i, s, cands) ==
    IF s = <<>> THEN <<i>>
    ELSE IF cands[Head(s)].score >= cands[i].score
         THEN <<Head(s)>> \o InsertDesc(i, Tail(s), cands)
         ELSE <<i>> \o s

\* faulty variant: equal scores come out in reverse input order
RECURSIVE SortedDescTo_TiesReversed(_, _)
SortedDescTo_TiesReversed(n, cands) ==
    IF n = 0 THEN <<>>
    ELSE LET s == SortedDescTo_TiesReversed(n - 1, cands)
             before == SelectSeq(s, LAMBDA j : cands[j].score > cands[n].score)
             after  == SelectSeq(s, LAMBDA j : cands[j].score <= cands[n].score)
         IN  before \o <<n>> \o after

\* sorted(range(n), key=score, reverse=True): a stable sort, equal scores keep
\* their input order
RECURSIVE SortedDescTo(_, _)
SortedDescTo(n, cands) ==
    IF n = 0 THEN <<>>
    ELSE InsertDesc(n, SortedDescTo(n - 1, cands), cands)

SelectInit ==
    /\ FilterIdle("select")
    /\ OtherIdle
    /\ BatchIdle
    /\ LearnIdle
    /\ spc = "start"
    /\ sel_candidates = <<>>
    /\ args_k = 0
    /\ diversity_threshold = 0
    /\ vecs = NoVecs
    /\ order = <<>>
    /\ pos = 0
    /\ selected_idx = <<>>
    /\ selected = <<>>
    /\ demos_file = NoValue

\* the arguments are parsed and the candidate file is read
Load(cands, kk, thr) ==
    /\ spc = "start"
    /\ sel_candidates' = cands
    /\ args_k' = kk
    /\ diversity_threshold' = thr
    /\ spc' = "encode"
    /\ UNCHANGED <<vecs, order, pos, selected_idx, selected, demos_file>>
    /\ UNCHANGED <<filterVars, batchVars, learnVars, otherVars>>

\* no candidate file exists: main returns without writing anything
NoCandidateFile ==
    /\ spc = "start"
    /\ spc' = "returned"
    /\ UNCHANGED <<sel_candidates, args_k, diversity_threshold, vecs, order, pos,
                   selected_idx, selected, demos_file>>
    /\ UNCHANGED <<filterVars, batchVars, learnVars, otherVars>>

\* the embedder encodes the counterfactuals, or is not available
Encode(available) ==
    /\ spc = "encode"
    /\ vecs' = IF available
               THEN [available |-> TRUE,
                     v |-> [i \in 1..Len(sel_candidates) |->
                                Embed(sel_candidates[i].counterfactual)]]
               ELSE NoVecs
    /\ spc' = "sort"
    /\ UNCHANGED <<sel_candidates, args_k, diversity_threshold, order, pos, selected_idx,
                   selected, demos_file>>
    /\ UNCHANGED <<filterVars, batchVars, learnVars, otherVars>>

Sort ==
    /\ spc = "sort"
    /\ order' = SortedDescTo(Len(sel_candidates), sel_candidates)
    /\ selected' = <<>>
    /\ selected_idx' = <<>>
    /\ pos' = 0
    /\ spc' = "for"
    /\ UNCHANGED <<sel_candidates, args_k, diversity_threshold, vecs, demos_file>>
    /\ UNCHANGED <<filterVars, batchVars, learnVars, otherVars>>

\* the similarity check of one candidate against the admitted ones
keep(i) ==
    ~vecs.available
        \/ \A n \in 1..Len(selected_idx) :
               ~cosine_exceeds(vecs.v[i], vecs.v[selected_idx[n]], diversity_threshold)

\* faulty variant: a candidate is compared with the last admitted one only
ForStep_LastOnly ==
    /\ spc = "for"
    /\ IF pos >= Len(order) \/ Len(selected) >= args_k
       THEN spc' = "write" /\ UNCHANGED <<pos, selected, selected_idx>>
       ELSE LET i == order[pos + 1]
                ok == ~vecs.available \/ selected_idx = <<>>
                        \/ ~cosine_exceeds(vecs.v[i], vecs.v[selected_idx[Len(selected_idx)]],
                                           diversity_threshold)
            IN  /\ pos' = pos + 1
                /\ spc' = "for"
                /\ selected' = IF ok THEN Append(selected, sel_candidates[i]) ELSE selected
                /\ selected_idx' = IF ok THEN Append(selected_idx, i) ELSE selected_idx
    /\ UNCHANGED <<sel_candidates, args_k, diversity_threshold, vecs, order, demos_file>>
    /\ UNCHANGED <<filterVars, batchVars, learnVars, otherVars>>

\* faulty variant: the similarity check is made whether or not vectors were computed
ForStep_AlwaysChecks ==
    /\ spc = "for"
    /\ IF pos >= Len(order) \/ Len(selected) >= args_k
       THEN spc' = "write" /\ UNCHANGED <<pos, selected, selected_idx>>
       ELSE LET i == order[pos + 1]
                ok == \A n \in 1..Len(selected_idx) :
                          ~cosine_exceeds(Embed(sel_candidates[i].counterfactual),
                                          Embed(sel_candidates[selected_idx[n]].counterfactual),
                                          diversity_threshold)
            IN  /\ pos' = pos + 1
                /\ spc' = "for"
                /\ selected' = IF ok THEN Append(selected, sel_candidates[i]) ELSE selected
                /\ selected_idx' = IF ok THEN Append(selected_idx, i) ELSE selected_idx
    /\ UNCHANGED <<sel_candidates, args_k, diversity_threshold, vecs, order, demos_file>>
    /\ UNCHANGED <<filterVars, batchVars, learnVars, otherVars>>

\* one iteration of "for i in order": the loop ends when order is used up or args.k
\* candidates are admitted; a candidate that is too similar is passed over
ForStep ==
    /\ spc = "for"
    /\ IF pos >= Len(order) \/ Len(selected) >= args_k
       THEN spc' = "write" /\ UNCHANGED <<pos, selected, selected_idx>>
       ELSE LET i == order[pos + 1]
            IN  /\ pos' = pos + 1
                /\ spc' = "for"
                /\ selected' = IF keep(i) THEN Append(selected, sel_candidates[i]) ELSE selected
                /\ selected_idx' = IF keep(i) THEN Append(selected_idx, i) ELSE selected_idx
    /\ UNCHANGED <<sel_candidates, args_k, diversity_threshold, vecs, order, demos_file>>
    /\ UNCHANGED <<filterVars, batchVars, learnVars, otherVars>>

WriteDemos ==
    /\ spc = "write"
    /\ demos_file' = selected
    /\ spc' = "done"
    /\ UNCHANGED <<sel_candidates, args_k, diversity_threshold, vecs, order, pos, selected_idx,
                   selected>>
    /\ UNCHANGED <<filterVars, batchVars, learnVars, otherVars>>

NextSelect ==
    \/ spc = "start" /\ \E cands \in Pools, kk \in Ks, thr \in DiversityThresholds :
           Load(cands, kk, thr)
    \/ NoCandidateFile
    \/ \E available \in BOOLEAN : Encode(available)
    \/ Sort
    \/ ForStep
    \/ WriteDemos

SpecSelect == SelectInit /\ [][NextSelect]_vars

(***************************************************************************)
(* Properties of the diversity selection                                   *)
(***************************************************************************)
Selecting == spc \in {"for", "write", "done"}

\* position of candidate index i in the sequence o
PosIn(o, i) == CHOOSE p \in 1..Len(o) : o[p] = i

\* o lists the indices of cands by score, best first, equal scores in input order
IsScoreDescending(o, cands) ==
    /\ Len(o) = Len(cands)
    /\ {o[p] : p \in 1..Len(o)} = 1..Len(cands)
    /\ \A a, b \in 1..Len(o) :
           a < b => \/ cands[o[a]].score > cands[o[b]].score
                    \/ cands[o[a]].score = cands[o[b]].score /\ o[a] < o[b]

\* the two candidates are more similar than the threshold allows
TooSimilar(i, j) ==
    cosine_exceeds(Embed(sel_candidates[i].counterfactual),
                   Embed(sel_candidates[j].counterfactual), diversity_threshold)

Minimum(a, b) == IF a < b THEN a ELSE b

\* C12: the selector never admits more than k candidates and, when embedding vectors
\* are available, never admits two candidates whose cosine similarity exceeds the
\* threshold, for every pool, every k (0 included) and every threshold; what it writes
\* is what it admitted.
C12_AtMostKAndDiverse ==
    Selecting =>
        /\ Len(selected) <= args_k
        /\ Len(selected_idx) = Len(selected)
        /\ vecs.available =>
               \A a, b \in 1..Len(selected_idx) :
                   a # b => ~TooSimilar(selected_idx[a], selected_idx[b])
        /\ spc = "done" => demos_file = selected

\* a run over three candidates with vectors that ends with fewer than k admitted,
\* a near-duplicate having been passed over
C12_Witness ==
    /\ spc = "done" /\ vecs.available
    /\ Len(sel_candidates) = 3 /\ args_k = 3
    /\ Len(demos_file) = 2

\* C13: candidates are considered in composite-score-descending order, equal scores in
\* input order; the admitted sequence is a subsequence of that order; the greedy pass
\* stops as soon as k candidates are admitted or the pool is exhausted.
C13_ScoreOrderGreedy ==
    Selecting =>
        /\ IsScoreDescending(order, sel_candidates)
        /\ pos <= Len(order)
        /\ \A a \in 1..Len(selected_idx) :
               /\ selected_idx[a] \in 1..Len(sel_candidates)
               /\ PosIn(order, selected_idx[a]) <= pos
               /\ selected[a] = sel_candidates[selected_idx[a]]
        /\ \A a, b \in 1..Len(selected_idx) :
               a < b => PosIn(order, selected_idx[a]) < PosIn(order, selected_idx[b])
        /\ (pos > 0 /\ Len(selected) >= args_k) =>
               (selected_idx # <<>> /\ selected_idx[Len(selected_idx)] = order[pos])
        /\ spc \in {"write", "done"} => (Len(selected) >= args_k \/ pos = Len(order))

\* a pool whose first two candidates tie below the third: the third is taken first,
\* then the first, and the pass stops with the second never looked at
C13_Witness ==
    /\ spc = "done" /\ Len(sel_candidates) = 3 /\ args_k = 2
    /\ sel_candidates[1].score = sel_candidates[2].score
    /\ sel_candidates[3].score > sel_candidates[1].score
    /\ selected_idx = <<3, 1>>
    /\ pos = 2

\* the top-ranked candidate: the best score, the earliest in the input among equals
Top(cands) ==
    CHOOSE i \in 1..Len(cands) :
        \A j \in 1..Len(cands) :
            \/ cands[i].score > cands[j].score
            \/ cands[i].score = cands[j].score /\ i <= j

\* C14: with k >= 1 and a non-empty pool the top-ranked candidate is always admitted,
\* first; when all candidates are pairwise more similar than the threshold (three
\* identical candidates, k = 3, threshold below 1.0) exactly one candidate is admitted.
C14_TopRankedAdmitted ==
    (spc = "done" /\ args_k >= 1 /\ sel_candidates # <<>>) =>
        /\ demos_file # <<>>
        /\ selected_idx[1] = Top(sel_candidates)
        /\ demos_file[1] = sel_candidates[Top(sel_candidates)]
        /\ ( /\ vecs.available
             /\ \A i, j \in 1..Len(sel_candidates) : i # j => TooSimilar(i, j)
           ) => Len(demos_file) = 1

C14_Witness ==
    /\ spc = "done" /\ vecs.available
    /\ Len(sel_candidates) = 3 /\ args_k = 3 /\ diversity_threshold < 100
    /\ sel_candidates[1] = sel_candidates[2] /\ sel_candidates[2] = sel_candidates[3]
    /\ demos_file = <<sel_candidates[1]>>

\* C15: without embedding vectors no similarity check is made: the selector returns
\* exactly the first min(k, n) candidates of the score-descending order, near-duplicates
\* included.
C15_NoVectorsTopK ==
    (spc = "done" /\ ~vecs.available) =>
        /\ IsScoreDescending(order, sel_candidates)
        /\ Len(demos_file) = Minimum(args_k, Len(sel_candidates))
        /\ \A a \in 1..Len(demos_file) :
               selected_idx[a] = order[a] /\ demos_file[a] = sel_candidates[order[a]]

\* three candidates with the same text and no vectors: the top two are returned
C15_Witness ==
    /\ spc = "done" /\ ~vecs.available
    /\ Len(sel_candidates) = 3 /\ args_k = 2
    /\ \A i \in 1..3 : sel_candidates[i].counterfactual = "cf1"
    /\ Len(demos_file) = 2

(***************************************************************************)
(* Properties of the candidate pool                                        *)
(***************************************************************************)
\* the filter details kept with a proposal show that it passed every stage
PassedAllStages(details) ==
    /\ details.c1.pass
    /\ "combined" \in DOMAIN details
    /\ PassAll(details.combined, cfg)

InInnerLoop == bpc \in {"cand", "annotate1", "annotate2", "filter", "endrow"}

\* C16: every candidate appended to the pool carries the annotator's label, which is
\* the requested target label, and passed all filter stages; a proposal whose assigned
\* label differs from the target is never submitted to the filter and never pooled; the
\* pool holds at most one candidate per original example.
C16_PoolLabelledAndPassed ==
    /\ [](/\ bpc = "filter" => cf_label = to_label
          /\ (InInnerLoop /\ best_candidate # None) =>
                 /\ best_candidate.label = to_label
                 /\ PassedAllStages(best_candidate.filter)
          /\ \A i \in 1..Len(candidates) :
                 /\ PassedAllStages(candidates[i].filter)
                 /\ candidates[i].counterfactual_label
                        \in Range(labels) \ {candidates[i].original_label}
                 /\ \A j \in 1..Len(candidates) :
                        i # j => candidates[i].original # candidates[j].original)
    /\ [][candidates' # candidates =>
              /\ Len(candidates') = Len(candidates) + 1
              /\ \A i \in 1..Len(candidates) : candidates[i] \in Range(candidates')
              /\ \E i \in 1..Len(candidates') :
                     /\ candidates'[i] \notin Range(candidates)
                     /\ candidates'[i].original = row
                     /\ candidates'[i].counterfactual_label = to_label]_vars

\* with three labels, a pooled candidate whose target was the third label
C16_Witness ==
    /\ Len(labels) = 3 /\ candidates # <<>>
    /\ candidates[1].counterfactual_label = "fear"
    /\ candidates[1].original_label = "joy"

MaxPatterns == 1   \* patterns in one pattern-learning response
MaxExamples == 2   \* training examples of one label

Pattern1 == [rule |-> "ADJ NOUN", confidence |-> 85]
Pattern2 == [rule |-> "[have] *", confidence |-> 60]
PatternLists == SeqsUpTo({Pattern1, Pattern2}, MaxPatterns)

\* all_patterns[label] = patterns
DictSet(d, key, value) ==
    {e \in d : e.label # key} \cup {[label |-> key, patterns |-> value]}

DictKeys(d) == {e.label : e \in d}

CompleteFile(d) == [state |-> "complete", patterns |-> d]

\* the labels argument
LearnLabelSets == { <<"joy", "anger">>, <<"joy">> }

\* the pattern store found at the start: none, one that cannot be parsed, and stores
\* that hold patterns of an earlier run (for the same labels, or for other labels),
\* or no patterns at all
StoredDicts ==
    { NoPatterns,
      {[label |-> "joy", patterns |-> <<Pattern1>>], [label |-> "anger", patterns |-> <<>>]},
      {[label |-> "joy", patterns |-> <<Pattern2>>],
       [label |-> "fear", patterns |-> <<Pattern1>>]} }
StoresBefore ==
    {AbsentFile, [state |-> "corrupt", patterns |-> NoPatterns]}
        \cup {CompleteFile(d) : d \in StoredDicts}

\* what the pattern-learning request gives
LearnResponses ==
    {[transport_error |-> TRUE, parse |-> "none", patterns |-> <<>>]}
      \cup {[transport_error |-> FALSE, parse |-> p, patterns |-> <<>>] :
                p \in {"unparseable", "no_braces"}}
      \cup {[transport_error |-> FALSE, parse |-> "strict_ok", patterns |-> ps] :
                ps \in PatternLists}

\* _parse_patterns: the "patterns" entry of the object between the first opening and
\* the last closing brace; [] when there are no braces or json.loads fails
parse_patterns(resp) ==
    IF resp.parse = "strict_ok" THEN resp.patterns ELSE <<>>

\* load_existing_patterns: the "patterns" entry of the store, or None when the file
\* does not exist or cannot be read
load_existing_patterns(file) ==
    IF file.state = "complete" THEN [none |-> FALSE, patterns |-> file.patterns]
    ELSE None

\* "if existing_patterns:" - None and the empty dict are both false
TruthyPatterns(loaded) == ~loaded.none /\ loaded.patterns # NoPatterns

InitLearn ==
    /\ FilterIdle("learn")
    /\ OtherIdle
    /\ BatchIdle
    /\ SelectIdle
    /\ lpc = "call"
    /\ force_relearn \in BOOLEAN
    /\ all_labels \in LearnLabelSets
    /\ label_examples \in [Range(all_labels) -> 0..MaxExamples]
    /\ store_file \in StoresBefore
    /\ store_before = store_file
    /\ latest_link \in (IF store_file = AbsentFile THEN {"absent"} ELSE {"absent", "linked"})
    /\ existing_patterns = None
    /\ all_patterns = NoPatterns
    /\ li = 0
    /\ learn_requests = 0
    /\ store_writes = 0
    /\ store_reads = 0
    /\ returned = NoValue

\* faulty variant: re-learning starts from the stored patterns and adds to them
CheckCache_Merge ==
    /\ lpc = "call"
    /\ LET loaded == load_existing_patterns(store_file)
       IN  /\ existing_patterns' = IF force_relearn THEN existing_patterns ELSE loaded
           /\ IF ~force_relearn /\ TruthyPatterns(loaded)
              THEN /\ returned' = [patterns |-> loaded.patterns]
                   /\ lpc' = "done"
                   /\ UNCHANGED <<all_patterns, li>>
              ELSE /\ all_patterns' = store_file.patterns
                   /\ li' = 1
                   /\ lpc' = "learn"
                   /\ UNCHANGED returned
    /\ UNCHANGED <<force_relearn, all_labels, label_examples, store_file, latest_link,
                   store_before, learn_requests, store_writes>>
    /\ store_reads' = IF force_relearn \/ store_file.state = "absent" THEN store_reads
                      ELSE store_reads + 1
    /\ UNCHANGED <<filterVars, batchVars, selectVars, otherVars>>

\* faulty variant: the error of reading a store that cannot be parsed leaves the call
CheckCache_LoadRaises ==
    /\ lpc = "call"
    /\ LET loaded == load_existing_patterns(store_file)
       IN  IF ~force_relearn /\ store_file.state = "corrupt"
           THEN lpc' = "failed" /\ UNCHANGED <<existing_patterns, returned, all_patterns, li>>
           ELSE /\ existing_patterns' = IF force_relearn THEN existing_patterns ELSE loaded
                /\ IF ~force_relearn /\ TruthyPatterns(loaded)
                   THEN /\ returned' = [patterns |-> loaded.patterns]
                        /\ lpc' = "done"
                        /\ UNCHANGED <<all_patterns, li>>
                   ELSE /\ all_patterns' = NoPatterns
                        /\ li' = 1
                        /\ lpc' = "learn"
                        /\ UNCHANGED returned
    /\ UNCHANGED <<force_relearn, all_labels, label_examples, store_file, latest_link,
                   store_before, learn_requests, store_writes>>
    /\ store_reads' = IF force_relearn \/ store_file.state = "absent" THEN store_reads
                      ELSE store_reads + 1
    /\ UNCHANGED <<filterVars, batchVars, selectVars, otherVars>>

\* the head of learn_all_patterns: unless relearning is forced the store is loaded,
\* and returned when it holds anything; otherwise learning starts with an empty dict
CheckCache ==
    /\ lpc = "call"
    /\ LET loaded == load_existing_patterns(store_file)
       IN  /\ existing_patterns' = IF force_relearn THEN existing_patterns ELSE loaded
           /\ IF ~force_relearn /\ TruthyPatterns(loaded)
              THEN /\ returned' = [patterns |-> loaded.patterns]
                   /\ lpc' = "done"
                   /\ UNCHANGED <<all_patterns, li>>
              ELSE /\ all_patterns' = NoPatterns
                   /\ li' = 1
                   /\ lpc' = "learn"
                   /\ UNCHANGED returned
    /\ UNCHANGED <<force_relearn, all_labels, label_examples, store_file, latest_link,
                   store_before, learn_requests, store_writes>>
    /\ store_reads' = IF force_relearn \/ store_file.state = "absent" THEN store_reads
                      ELSE store_reads + 1
    /\ UNCHANGED <<filterVars, batchVars, selectVars, otherVars>>

\* faulty variant: a request is made also for a label with fewer than 2 examples
InsufficientExamples_Requests ==
    /\ lpc = "learn" /\ li <= Len(all_labels)
    /\ label_examples[all_labels[li]] < 2
    /\ all_patterns' = DictSet(all_patterns, all_labels[li], <<>>)
    /\ learn_requests' = learn_requests + 1
    /\ li' = li + 1
    /\ UNCHANGED <<lpc, force_relearn, all_labels, label_examples, store_file, latest_link,
                   store_before, existing_patterns, store_writes, store_reads, returned>>
    /\ UNCHANGED <<filterVars, batchVars, selectVars, otherVars>>

\* a label with fewer than 2 examples gets an empty list, without a request
InsufficientExamples ==
    /\ lpc = "learn" /\ li <= Len(all_labels)
    /\ label_examples[all_labels[li]] < 2
    /\ all_patterns' = DictSet(all_patterns, all_labels[li], <<>>)
    /\ li' = li + 1
    /\ UNCHANGED <<lpc, force_relearn, all_labels, label_examples, store_file, latest_link,
                   store_before, existing_patterns, learn_requests, store_writes, store_reads, returned>>
    /\ UNCHANGED <<filterVars, batchVars, selectVars, otherVars>>

\* learn_patterns_for_label: one request (retries=1); a transport error gives []
LearnPatternsForLabel(resp) ==
    /\ lpc = "learn" /\ li <= Len(all_labels)
    /\ label_examples[all_labels[li]] >= 2
    /\ learn_requests' = learn_requests + 1
    /\ all_patterns' = DictSet(all_patterns, all_labels[li],
                               IF resp.transport_error THEN <<>> ELSE parse_patterns(resp))
    /\ li' = li + 1
    /\ UNCHANGED <<lpc, force_relearn, all_labels, label_examples, store_file, latest_link,
                   store_before, existing_patterns, store_writes, store_reads, returned>>
    /\ UNCHANGED <<filterVars, batchVars, selectVars, otherVars>>

\* save_patterns, write_json: Path.write_text opens the store file itself for writing,
\* which empties it
SaveOpen ==
    /\ lpc = "learn" /\ li > Len(all_labels)
    /\ store_file' = [state |-> "empty", patterns |-> NoPatterns]
    /\ store_writes' = store_writes + 1
    /\ UNCHANGED store_reads
    /\ lpc' = "writing"
    /\ UNCHANGED <<force_relearn, all_labels, label_examples, latest_link, store_before,
                   existing_patterns, all_patterns, li, learn_requests, returned>>
    /\ UNCHANGED <<filterVars, batchVars, selectVars, otherVars>>

\* a part of the text reaches the file before the rest
SaveFlush ==
    /\ lpc = "writing" /\ store_file.state = "empty"
    /\ store_file' = [state |-> "partial", patterns |-> NoPatterns]
    /\ UNCHANGED <<lpc, force_relearn, all_labels, label_examples, latest_link, store_before,
                   existing_patterns, all_patterns, li, learn_requests, store_writes, store_reads,
                   returned>>
    /\ UNCHANGED <<filterVars, batchVars, selectVars, otherVars>>

\* the text is written and the file closed
SaveClose ==
    /\ lpc = "writing"
    /\ store_file' = CompleteFile(all_patterns)
    /\ lpc' = "unlink"
    /\ UNCHANGED <<force_relearn, all_labels, label_examples, latest_link, store_before,
                   existing_patterns, all_patterns, li, learn_requests, store_writes, store_reads,
                   returned>>
    /\ UNCHANGED <<filterVars, batchVars, selectVars, otherVars>>

\* if latest_link.exists(): latest_link.unlink()
UnlinkLatest ==
    /\ lpc = "unlink"
    /\ latest_link' = "absent"
    /\ lpc' = "link"
    /\ UNCHANGED <<force_relearn, all_labels, label_examples, store_file, store_before,
                   existing_patterns, all_patterns, li, learn_requests, store_writes, store_reads,
                   returned>>
    /\ UNCHANGED <<filterVars, batchVars, selectVars, otherVars>>

\* latest_link.symlink_to(patterns_file.name), and the return of learn_all_patterns
LinkLatest ==
    /\ lpc = "link"
    /\ latest_link' = "linked"
    /\ returned' = [patterns |-> all_patterns]
    /\ lpc' = "done"
    /\ UNCHANGED <<force_relearn, all_labels, label_examples, store_file, store_before,
                   existing_patterns, all_patterns, li, learn_requests, store_writes, store_reads>>
    /\ UNCHANGED <<filterVars, batchVars, selectVars, otherVars>>

\* the process is stopped while save_patterns runs
Interrupt ==
    /\ lpc \in {"writing", "unlink", "link"}
    /\ lpc' = "interrupted"
    /\ UNCHANGED <<force_relearn, all_labels, label_examples, store_file, latest_link,
                   store_before, existing_patterns, all_patterns, li, learn_requests,
                   store_writes, store_reads, returned>>
    /\ UNCHANGED <<filterVars, batchVars, selectVars, otherVars>>

NextLearn ==
    \/ CheckCache
    \/ InsufficientExamples
    \/ \E resp \in LearnResponses : LearnPatternsForLabel(resp)
    \/ SaveOpen
    \/ SaveFlush
    \/ SaveClose
    \/ UnlinkLatest
    \/ LinkLatest
    \/ Interrupt

SpecLearn == InitLearn /\ [][NextLearn]_vars

(***************************************************************************)
(* Properties of the pattern store                                         *)
(***************************************************************************)
\* C18: when the pattern store of (task, model) exists and relearning is not forced,
\* learn_all_patterns returns the stored label-to-patterns mapping, makes no
\* pattern-learning request and does not write the store; when relearning is forced
\* the cache is not consulted.
C18_CacheHitNoRelearn ==
    /\ (~force_relearn /\ store_before.state = "complete") =>
           /\ learn_requests = 0
           /\ store_writes = 0
           /\ store_file = store_before
           /\ lpc \in {"call", "done"}
           /\ lpc = "done" => returned = [patterns |-> store_before.patterns]
    /\ force_relearn => existing_patterns = None

\* learn_all_patterns learned the patterns anew in this call
Relearned == lpc = "done" /\ store_writes > 0

\* C19: re-learning fully replaces the persisted pattern set: afterwards the store
\* holds exactly the newly learned patterns of the requested labels, one entry for each,
\* and nothing of the previous store (no merge, no partial update).
C19_RelearnReplacesStore ==
    Relearned =>
        /\ store_file = CompleteFile(all_patterns)
        /\ returned = [patterns |-> all_patterns]
        /\ DictKeys(store_file.patterns) = Range(all_labels)
        /\ Cardinality(store_file.patterns) = Cardinality(Range(all_labels))
        /\ \A e \in store_file.patterns :
               /\ e.patterns \in PatternLists
               /\ label_examples[e.label] < 2 => e.patterns = <<>>
               /\ learn_requests = 0 => e.patterns = <<>>

\* a forced re-learning for the label joy alone over a store that held joy and fear:
\* the new store has the newly learned pattern of joy and no entry for fear
C19_Witness ==
    /\ Relearned /\ force_relearn
    /\ store_before.state = "complete"
    /\ "fear" \in DictKeys(store_before.patterns)
    /\ store_file.patterns = {[label |-> "joy", patterns |-> <<Pattern1>>]}

\* what a reader of a file sees: its content, or that it cannot be used
Readable(file) == file.state = "complete"

\* the file a reader of the "latest" alias gets
LatestTarget == IF latest_link = "linked" THEN store_file ELSE AbsentFile

\* C20: re-learning replaces the stored pattern set atomically (write, then publish):
\* at every point of save_patterns, and after an interruption of it, a reader of the
\* store file or of the "latest" alias sees the complete previous store or the
\* complete new store, never a missing, empty or partly written one.
C20_AtomicReplace ==
    lpc \in {"writing", "unlink", "link", "interrupted", "done"} =>
        /\ store_file \in {store_before, CompleteFile(all_patterns)}
        /\ store_before.state = "complete" => Readable(store_file)
        /\ latest_link = "linked" =>
               LatestTarget \in {store_before, CompleteFile(all_patterns)}

\* the labels of the call that have enough examples to be learned
LearnableLabels == {l \in Range(all_labels) : label_examples[l] >= 2}

C23_InsufficientExamplesRule ==
    li >= 1 =>
        LET done_labels == {all_labels[i] : i \in 1..(li - 1)}
        IN  /\ DictKeys(all_patterns) = done_labels
            /\ \A e \in all_patterns : label_examples[e.label] < 2 => e.patterns = <<>>
            /\ learn_requests = Cardinality({l \in done_labels : label_examples[l] >= 2})
            /\ lpc = "done" => done_labels = Range(all_labels)

\* joy has one example and anger two: joy gets the empty list without a request, and
\* the one request of the call learns a pattern for anger
C23_Witness ==
    /\ lpc = "done" /\ all_labels = <<"joy", "anger">>
    /\ label_examples["joy"] = 1 /\ label_examples["anger"] = 2
    /\ learn_requests = 1
    /\ returned = [patterns |-> {[label |-> "joy", patterns |-> <<>>],
                                 [label |-> "anger", patterns |-> <<Pattern1>>]}]

(***************************************************************************)
(* One whole batch run: make_demos.main learns or loads the patterns       *)
(* (learn_all_patterns, called once before the loop) and then processes    *)
(* the sampled examples.                                                   *)
(***************************************************************************)
\* the pattern stores a batch run may find: none, or one of an earlier run
RunStores == {AbsentFile} \cup {CompleteFile(d) : d \in StoredDicts \ {NoPatterns}}

InitRun ==
    /\ FilterIdle("batch")
    /\ OtherIdle
    /\ SelectIdle
    /\ bpc = "patterns"
    /\ labels = <<"joy", "anger">>
    /\ rows \in {r \in SeqsUpTo(RowLabels, MaxRows) : r # <<>>}
    /\ row = 1
    /\ to_label = "none"
    /\ cf_candidates = <<>>
    /\ idx = 0
    /\ cf_label = "none"
    /\ best_candidate = None
    /\ best_score = F(0)
    /\ candidates = <<>>
    /\ counts = [generated |-> 0, empty_cf |-> 0, failed_filter |-> 0]
    /\ pool_file = NoValue
    /\ lpc = "call"
    /\ force_relearn \in BOOLEAN
    /\ all_labels = labels
    /\ label_examples \in [Range(all_labels) -> {MaxExamples - 1, MaxExamples}]
    /\ store_file \in RunStores
    /\ store_before = store_file
    /\ latest_link = (IF store_file = AbsentFile THEN "absent" ELSE "linked")
    /\ existing_patterns = None
    /\ all_patterns = NoPatterns
    /\ li = 0
    /\ learn_requests = 0
    /\ store_writes = 0
    /\ store_reads = 0
    /\ returned = NoValue

\* learn_all_patterns has returned all_patterns: main goes on to the loop
StartLoop ==
    /\ bpc = "patterns" /\ lpc = "done"
    /\ bpc' = "loop"
    /\ UNCHANGED <<labels, rows, row, to_label, cf_candidates, idx, cf_label, best_candidate,
                   best_score, candidates, counts, pool_file>>
    /\ UNCHANGED <<filterVars, selectVars, learnVars, otherVars>>

NextRun ==
    \/ NextLearn
    \/ StartLoop
    \/ NextBatch

SpecRun == InitRun /\ [][NextRun]_vars

\* C22: in one batch run the pattern store is read exactly once, at batch start, and
\* written exactly once, at batch end, that is after all candidates have been processed.
C22_ReadAtStartWrittenAtEnd ==
    /\ store_reads > 0 => (store_reads = 1 /\ candidates = <<>> /\ counts.generated <= 1)
    /\ store_writes > 0 => (store_writes = 1 /\ row > Len(rows))
    /\ bpc = "finished" => (store_reads = 1 /\ store_writes = 1)

(***************************************************************************)
(* identify_candidate_phrases: the phrases to modify for one example,      *)
(* taken from the learned patterns of its label.                           *)
(***************************************************************************)
MaxIdPatterns == 2

\* the value of a JSON field: the store holds what the pattern-learning response held
JNumber(n) == [kind |-> "number", v |-> n]
JString == [kind |-> "string", v |-> 0]
JMissing == [kind |-> "missing", v |-> 0]

\* patterns as the store holds them; confidences in hundredths
IdPatternA == [rule |-> "A", confidence |-> JNumber(85), modifiable_segments |-> <<"very">>]
IdPatternB == [rule |-> "B", confidence |-> JNumber(85), modifiable_segments |-> <<"good">>]
IdPatternC == [rule |-> "C", confidence |-> JMissing, modifiable_segments |-> <<>>]
IdPatternD == [rule |-> "D", confidence |-> JNumber(0), modifiable_segments |-> <<"bad">>]
IdPatternH == [rule |-> "H", confidence |-> JString, modifiable_segments |-> <<"not">>]
IdPatterns == {IdPatternA, IdPatternB, IdPatternC, IdPatternD, IdPatternH}
IdPatternLists == SeqsUpTo(IdPatterns, MaxIdPatterns)

\* the patterns argument
IdStores ==
    {NoPatterns}
        \cup {{[label |-> "joy", patterns |-> l]} : l \in IdPatternLists}
        \cup {{[label |-> "joy", patterns |-> l], [label |-> "anger", patterns |-> <<IdPatternD>>]} :
                 l \in IdPatternLists}
IdLabels == {"joy", "anger", "fear"}

\* patterns[original_label]
DictGet(d, l) == (CHOOSE e \in d : e.label = l).patterns

\* p.get("confidence", 0)
confidence_key(p) == IF p.confidence.kind = "missing" THEN JNumber(0) ELSE p.confidence

\* a > b of two key values: numbers by value, two strings as strings, a number and a
\* string raise TypeError
GreaterKey(a, b) ==
    IF a.kind # b.kind THEN [raised |-> TRUE, greater |-> FALSE]
    ELSE [raised |-> FALSE, greater |-> a.v > b.v]

\* max(label_patterns, key=...): the first element is the best so far, and a later one
\* replaces it when its key is greater
RECURSIVE MaxFrom(_, _, _)
MaxFrom(l, i, best) ==
    IF i > Len(l) THEN [raised |-> FALSE, index |-> best]
    ELSE LET c == GreaterKey(confidence_key(l[i]), confidence_key(l[best]))
         IN  IF c.raised THEN [raised |-> TRUE, index |-> 0]
             ELSE MaxFrom(l, i + 1, IF c.greater THEN i ELSE best)

General ==
    [phrases |-> <<"semantic content">>, pattern_rule |-> "general structure",
     strategy |-> "general"]

\* the value identify_candidate_phrases returns, or the exception it raises
identify_candidate_phrases(pats, label) ==
    IF pats = NoPatterns \/ label \notin DictKeys(pats) THEN General
    ELSE LET label_patterns == DictGet(pats, label)
         IN  IF label_patterns = <<>> THEN General
             ELSE LET m == MaxFrom(label_patterns, 2, 1)
                  IN  IF m.raised THEN [raised |-> "TypeError"]
                      ELSE [phrases |-> label_patterns[m.index].modifiable_segments,
                            pattern_rule |-> label_patterns[m.index].rule,
                            strategy |-> "pattern_guided"]

IdentifyIdle ==
    /\ FilterIdle("identify")
    /\ BatchIdle
    /\ SelectIdle
    /\ LearnIdle
    /\ ClientVarsIdle
    /\ DirVarsIdle
    /\ ExtractVarsIdle

InitIdentify ==
    /\ IdentifyIdle
    /\ ipc = "called"
    /\ id_patterns \in IdStores
    /\ original_label \in IdLabels
    /\ candidate_info = NoValue

IdentifyCandidatePhrases ==
    /\ ipc = "called"
    /\ candidate_info' = identify_candidate_phrases(id_patterns, original_label)
    /\ ipc' = "done"
    /\ UNCHANGED <<id_patterns, original_label>>
    /\ UNCHANGED <<filterVars, batchVars, selectVars, learnVars, clientVars, dirVars, extractVars>>

NextIdentify == IdentifyCandidatePhrases

SpecIdentify == InitIdentify /\ [][NextIdentify]_vars

\* the patterns the store holds for the original label
LabelPatterns ==
    IF original_label \in DictKeys(id_patterns) THEN DictGet(id_patterns, original_label)
    ELSE <<>>

\* position i holds a pattern of highest confidence, and no earlier position does
FirstHighest(l, i) ==
    /\ \A j \in 1..Len(l) : confidence_key(l[j]).v <= confidence_key(l[i]).v
    /\ \A j \in 1..(i - 1) : confidence_key(l[j]).v < confidence_key(l[i]).v

\* C24: identify_candidate_phrases returns strategy "pattern_guided" exactly when the
\* store holds at least one pattern for the original label, and then it uses the
\* pattern of highest confidence, the first of them in the label's list on a tie, a
\* pattern without confidence counting as 0; otherwise it returns the generic fallback.
C24_BestPatternOrGeneral ==
    ipc = "done" =>
        IF LabelPatterns # <<>>
        THEN /\ "strategy" \in DOMAIN candidate_info
             /\ candidate_info.strategy = "pattern_guided"
             /\ \E i \in 1..Len(LabelPatterns) :
                   /\ FirstHighest(LabelPatterns, i)
                   /\ candidate_info.pattern_rule = LabelPatterns[i].rule
                   /\ candidate_info.phrases = LabelPatterns[i].modifiable_segments
        ELSE candidate_info = General

(***************************************************************************)
(* OllamaClient.run: one request with its retries.                         *)
(***************************************************************************)
MaxRetries == 2

\* r.json().get("response", "") of an attempt that succeeds
ClientResponses == {"text", ""}

\* what requests.post, raise_for_status or r.json can raise
ClientErrors == {"ConnectionError", "Timeout", "HTTPError"}

ClientIdle ==
    /\ FilterIdle("client")
    /\ BatchIdle
    /\ SelectIdle
    /\ LearnIdle
    /\ IdentifyVarsIdle
    /\ DirVarsIdle
    /\ ExtractVarsIdle

\* run is called: the loop starts with attempt = 0
InitClient ==
    /\ ClientIdle
    /\ cpc = "try"
    /\ retries \in 0..MaxRetries
    /\ attempt = 0
    /\ attempt_log = <<>>
    /\ sleeps = <<>>
    /\ run_result = NoValue

\* the body of try runs through: run returns the response
PostSucceeds(resp) ==
    /\ cpc = "try"
    /\ attempt_log' = Append(attempt_log, [ok |-> TRUE, value |-> resp])
    /\ run_result' = [kind |-> "returned", value |-> resp]
    /\ cpc' = "returned"
    /\ UNCHANGED <<retries, attempt, sleeps>>
    /\ UNCHANGED <<filterVars, batchVars, selectVars, learnVars, identifyVars, dirVars, extractVars>>

\* the body of try raises: control is in the except clause
PostFails(err) ==
    /\ cpc = "try"
    /\ attempt_log' = Append(attempt_log, [ok |-> FALSE, value |-> err])
    /\ cpc' = "except"
    /\ UNCHANGED <<retries, attempt, sleeps, run_result>>
    /\ UNCHANGED <<filterVars, batchVars, selectVars, learnVars, identifyVars, dirVars, extractVars>>

\* if attempt >= retries: raise
Reraise ==
    /\ cpc = "except"
    /\ attempt >= retries
    /\ run_result' = [kind |-> "raised", value |-> attempt_log[Len(attempt_log)].value]
    /\ cpc' = "raised"
    /\ UNCHANGED <<retries, attempt, attempt_log, sleeps>>
    /\ UNCHANGED <<filterVars, batchVars, selectVars, learnVars, identifyVars, dirVars, extractVars>>

\* faulty variant: the same delay before every retry
Sleep_NoBackoff ==
    /\ cpc = "except"
    /\ attempt < retries
    /\ sleeps' = Append(sleeps, 1)
    /\ attempt' = attempt + 1
    /\ cpc' = "try"
    /\ UNCHANGED <<retries, attempt_log, run_result>>
    /\ UNCHANGED <<filterVars, batchVars, selectVars, learnVars, identifyVars, dirVars, extractVars>>

\* time.sleep(0.5 * (attempt + 1)), in units of half a second, and the next turn of
\* the loop
Sleep ==
    /\ cpc = "except"
    /\ attempt < retries
    /\ sleeps' = Append(sleeps, attempt + 1)
    /\ attempt' = attempt + 1
    /\ cpc' = "try"
    /\ UNCHANGED <<retries, attempt_log, run_result>>
    /\ UNCHANGED <<filterVars, batchVars, selectVars, learnVars, identifyVars, dirVars, extractVars>>

NextClient ==
    \/ cpc = "try" /\ \E resp \in ClientResponses : PostSucceeds(resp)
    \/ cpc = "try" /\ \E err \in ClientErrors : PostFails(err)
    \/ Reraise
    \/ Sleep

SpecClient == InitClient /\ [][NextClient]_vars

\* the attempts before the last one all failed
EarlierFailed == \A i \in 1..(Len(attempt_log) - 1) : ~attempt_log[i].ok

AllFailed == \A i \in 1..Len(attempt_log) : ~attempt_log[i].ok

\* C25: run makes at most retries + 1 attempts; it returns the response of the first
\* successful attempt and makes no attempt after it; before the retry that follows the
\* i-th failed attempt it waits i half-seconds; it raises the error of the last attempt
\* exactly when all retries + 1 attempts failed, and it returns only after a success.
C25_RetryContract ==
    cpc # "none" =>
        /\ Len(attempt_log) <= retries + 1
        /\ EarlierFailed
        /\ \A i \in 1..Len(sleeps) : sleeps[i] = i
        /\ Len(sleeps) = attempt
        /\ cpc = "returned" =>
              /\ attempt_log[Len(attempt_log)].ok
              /\ run_result = [kind |-> "returned", value |-> attempt_log[Len(attempt_log)].value]
              /\ Len(sleeps) = Len(attempt_log) - 1
        /\ cpc = "raised" =>
              /\ AllFailed
              /\ Len(attempt_log) = retries + 1
              /\ run_result = [kind |-> "raised", value |-> attempt_log[retries + 1].value]
        /\ (AllFailed /\ Len(attempt_log) = retries + 1) => cpc \in {"except", "raised"}
        /\ cpc \in {"try", "except"} => run_result = NoValue

\* the response comes from the third attempt, after waits of 0.5 s and 1.0 s
C25_Witness ==
    /\ cpc = "returned"
    /\ retries = 2
    /\ Len(attempt_log) = 3
    /\ sleeps = <<1, 2>>
    /\ run_result.value = "text"

(***************************************************************************)
(* The structured-response extractors: _strict_json of the annotator and   *)
(* _parse_json_response of the evaluator.  A response is a sequence of     *)
(* pieces: "FJ" the fence ```json, "F" the fence ```, the braces, "kv" a   *)
(* well-formed member, "esc" a member whose string holds a backslash that  *)
(* starts no escape sequence, "syn" a member with another syntax error,    *)
(* "prose" text outside JSON.                                              *)
(***************************************************************************)
MaxPieces == 3

Pieces == {"FJ", "F", "{", "}", "kv", "esc", "syn", "prose"}

ExtractTexts ==
    SeqsUpTo(Pieces, MaxPieces)
        \cup { <<"prose", "{", "kv", "esc", "}">>,
               <<"FJ", "{", "kv", "}", "F", "prose">>,
               <<"FJ", "{", "esc", "}", "F", "{", "kv", "}">>,
               <<"{", "kv", "}", "prose", "{", "kv", "}">> }

Extractors == {"_strict_json", "_parse_json_response"}

\* s.find(piece) from position from: the first position, 0 if there is none
FindFrom(s, ps, from) ==
    LET hits == {i \in from..Len(s) : s[i] \in ps}
    IN  IF hits = {} THEN 0 ELSE CHOOSE i \in hits : \A j \in hits : i <= j

\* s.rfind(piece)
RFind(s, ps) ==
    LET hits == {i \in 1..Len(s) : s[i] \in ps}
    IN  IF hits = {} THEN 0 ELSE CHOOSE i \in hits : \A j \in hits : i >= j

\* if "```json" in s: the text between the tag and the next fence, when there is one
SliceFence(s) ==
    LET tag == FindFrom(s, {"FJ"}, 1)
        end == FindFrom(s, {"F", "FJ"}, tag + 1)
    IN  IF tag # 0 /\ end # 0 THEN SubSeq(s, tag + 1, end - 1) ELSE s

\* i = s.find("{"); j = s.rfind("}"): s[i:j+1], or <<>> for "no JSON"
SliceBraces(s) ==
    LET i == FindFrom(s, {"{"}, 1)
        j == RFind(s, {"}"})
    IN  IF i = 0 \/ j = 0 \/ j <= i THEN <<>> ELSE SubSeq(s, i, j)

\* json.loads(json_str) succeeds: one object whose members are all well-formed
Loads(js) ==
    /\ Len(js) >= 2
    /\ js[1] = "{" /\ js[Len(js)] = "}"
    /\ \A i \in 2..(Len(js) - 1) : js[i] = "kv"

\* the repair pass: the backslashes that start no escape sequence are doubled
FixEscapes(js) == [i \in 1..Len(js) |-> IF js[i] = "esc" THEN "kv" ELSE js[i]]

\* the outcome of an extractor: the parsed object, or the failure (ValueError of
\* _strict_json, None of _parse_json_response)
Parsed(js) == [ok |-> TRUE, members |-> Len(js) - 2]
Failure == [ok |-> FALSE, members |-> 0]

InitExtract ==
    /\ FilterIdle("extract")
    /\ BatchIdle
    /\ SelectIdle
    /\ LearnIdle
    /\ IdentifyVarsIdle
    /\ ClientVarsIdle
    /\ DirVarsIdle
    /\ xpc = "slice"
    /\ extractor \in Extractors
    /\ raw \in ExtractTexts
    /\ json_str = <<>>
    /\ parses = 0
    /\ repairs = 0
    /\ extracted = NoValue

\* the fenced block is cut out and the braces are located
Slice ==
    /\ xpc = "slice"
    /\ json_str' = SliceBraces(SliceFence(raw))
    /\ IF json_str' = <<>>
       THEN xpc' = "done" /\ extracted' = Failure
       ELSE xpc' = "parse" /\ UNCHANGED extracted
    /\ UNCHANGED <<extractor, raw, parses, repairs>>
    /\ UNCHANGED <<filterVars, batchVars, selectVars, learnVars, identifyVars, clientVars,
                   dirVars>>

\* the strict parse; on json.JSONDecodeError _strict_json goes on to the repair and
\* _parse_json_response returns None
StrictParse ==
    /\ xpc = "parse"
    /\ parses' = parses + 1
    /\ IF Loads(json_str)
       THEN xpc' = "done" /\ extracted' = Parsed(json_str)
       ELSE IF extractor = "_strict_json"
            THEN xpc' = "repair" /\ UNCHANGED extracted
            ELSE xpc' = "done" /\ extracted' = Failure
    /\ UNCHANGED <<extractor, raw, json_str, repairs>>
    /\ UNCHANGED <<filterVars, batchVars, selectVars, learnVars, identifyVars, clientVars,
                   dirVars>>

\* _strict_json: fixed_json
Repair ==
    /\ xpc = "repair"
    /\ json_str' = FixEscapes(json_str)
    /\ repairs' = repairs + 1
    /\ xpc' = "reparse"
    /\ UNCHANGED <<extractor, raw, parses, extracted>>
    /\ UNCHANGED <<filterVars, batchVars, selectVars, learnVars, identifyVars, clientVars,
                   dirVars>>

\* _strict_json: json.loads(fixed_json), ValueError when it fails too
SecondParse ==
    /\ xpc = "reparse"
    /\ parses' = parses + 1
    /\ extracted' = IF Loads(json_str) THEN Parsed(json_str) ELSE Failure
    /\ xpc' = "done"
    /\ UNCHANGED <<extractor, raw, json_str, repairs>>
    /\ UNCHANGED <<filterVars, batchVars, selectVars, learnVars, identifyVars, clientVars,
                   dirVars>>

NextExtract ==
    \/ Slice
    \/ StrictParse
    \/ Repair
    \/ SecondParse

SpecExtract == InitExtract /\ [][NextExtract]_vars

\* the text between the first opening and the last closing brace of the response
Braced == SliceBraces(SliceFence(raw))

\* C26: every extractor, the evaluator's included, makes a strict parse of the text
\* between the first opening and the last closing brace; when that parse fails it makes
\* exactly one repair pass and exactly one more strict parse; it fails only when there
\* are no braces or the second parse fails too.
C26_TwoPassProtocol ==
    xpc = "done" =>
        IF Braced = <<>> THEN parses = 0 /\ repairs = 0 /\ ~extracted.ok
        ELSE IF Loads(Braced) THEN parses = 1 /\ repairs = 0 /\ extracted = Parsed(Braced)
        ELSE /\ parses = 2
             /\ repairs = 1
             /\ extracted = IF Loads(FixEscapes(Braced)) THEN Parsed(Braced) ELSE Failure

\* the evaluator's response could not be parsed and the text was scanned
TextScanned ==
    /\ Evaluated
    /\ ~response.transport_error
    /\ parse_json_response(response) = None

\* the numbers of the response labelled with the metric's own name, as scores
OwnNumbers(metric) ==
    {Clamp(Percent(F(response.labelled[i].v))) :
        i \in {j \in 1..Len(response.labelled) : response.labelled[j].label = metric}}

\* C27: when structured extraction fails, the text scan takes each metric from a number
\* labelled with the metric's own name, whatever the order of the labelled numbers and
\* whichever are missing (lfr never from the number labelled slfr, and the reverse); a
\* metric without a labelled number gets its default, pkr 0.5, lfr 0.0, slfr 0.0.
C27_ScanKeyedByOwnName ==
    TextScanned =>
        /\ IF OwnNumbers("pkr") = {} THEN combined_result.pkr = F(50)
           ELSE combined_result.pkr \in OwnNumbers("pkr")
        /\ IF OwnNumbers("lfr") = {} THEN combined_result.lfr = F(0)
           ELSE combined_result.lfr \in OwnNumbers("lfr")
        /\ IF OwnNumbers("slfr") = {} THEN combined_result.slfr = F(0)
           ELSE combined_result.slfr \in OwnNumbers("slfr")

(***************************************************************************)
(* The directory reports/patterns over several runs: save_patterns and     *)
(* load_existing_patterns for different tasks and models.  Names are       *)
(* sequences of characters.                                                *)
(***************************************************************************)
MaxSaves == 2

\* task names (the --task argument) and model names (cfg["model_gen"])
TaskNames == { <<"t">>, <<"t", "_", "x">> }
ModelNames ==
    { <<"m", ":", "1">>, <<"m", "/", "1">>, <<"m", "_", "1">>, <<"x", "_", "m", ":", "1">> }

\* model_name.replace(':', '_').replace('/', '_')
clean_model(model_name) ==
    [i \in 1..Len(model_name) |->
        IF model_name[i] \in {":", "/"} THEN "_" ELSE model_name[i]]

\* f"patterns_{task_name}_{clean_model}.json"
get_patterns_filename(task_name, model_name) ==
    <<"p", "a", "t", "t", "e", "r", "n", "s", "_">> \o task_name \o <<"_">>
        \o clean_model(model_name) \o <<".", "j", "s", "o", "n">>

InitDir ==
    /\ FilterIdle("store")
    /\ BatchIdle
    /\ SelectIdle
    /\ LearnIdle
    /\ IdentifyVarsIdle
    /\ ClientVarsIdle
    /\ ExtractVarsIdle
    /\ kpc = "idle"
    /\ patterns_dir = {}
    /\ load_key = NoValue
    /\ load_result = None
    /\ saves = 0

\* save_patterns: write_json replaces the file of that name; the file records the task
\* and the model its patterns were learned for
SavePatterns(task_name, model_name) ==
    /\ saves < MaxSaves
    /\ LET name == get_patterns_filename(task_name, model_name)
       IN  patterns_dir' = {f \in patterns_dir : f.name # name}
                               \cup {[name |-> name, task |-> task_name, model |-> model_name]}
    /\ saves' = saves + 1
    /\ kpc' = "saved"
    /\ UNCHANGED <<load_key, load_result>>
    /\ UNCHANGED <<filterVars, batchVars, selectVars, learnVars, identifyVars, clientVars,
                   extractVars>>

\* load_existing_patterns: the content of the file of that name, None without it
LoadExistingPatterns(task_name, model_name) ==
    /\ saves > 0
    /\ LET name == get_patterns_filename(task_name, model_name)
           found == {f \in patterns_dir : f.name = name}
       IN  load_result' = IF found = {} THEN None
                          ELSE LET f == CHOOSE g \in found : TRUE
                               IN  [task |-> f.task, model |-> f.model]
    /\ load_key' = [task |-> task_name, model |-> model_name]
    /\ kpc' = "loaded"
    /\ UNCHANGED <<patterns_dir, saves>>
    /\ UNCHANGED <<filterVars, batchVars, selectVars, learnVars, identifyVars, clientVars,
                   extractVars>>

NextDir ==
    \/ \E t \in TaskNames, mn \in ModelNames : SavePatterns(t, mn)
    \/ \E t \in TaskNames, mn \in ModelNames : LoadExistingPatterns(t, mn)

SpecDir == InitDir /\ [][NextDir]_vars

\* C28: the store file is keyed by (task, model): load_existing_patterns never returns
\* patterns that were saved for another task or another model.
C28_KeyedByTaskAndModel ==
    (kpc = "loaded" /\ load_result # None) => load_result = load_key

\* the number of times the word at position i of the word list occurs in it
Occurrences(w, i) == Cardinality({j \in 1..Len(w) : w[j] = w[i]})

\* some single word makes up more than half of the words
MoreThanHalf(w) == \E i \in 1..Len(w) : 2 * Occurrences(w, i) > Len(w)

\* C29: the gate's repetition rule rejects exactly the texts, not rejected by an earlier
\* rule, that have more than 3 whitespace-separated words of which one word makes up
\* more than half, for even and for odd word counts; it never rejects a text of 3 or
\* fewer words.
C29_RepetitionMoreThanHalf ==
    pc = "gate_done" =>
        LET w == Split(text)
            earlier == \E i \in 1..4 : RuleHolds(i, text)
        IN  /\ (c1_result.reason = "Excessive word repetition")
                   = (~earlier /\ Len(w) > 3 /\ MoreThanHalf(w))
            /\ Len(w) <= 3 => c1_result.reason # "Excessive word repetition"

\* five words, one of them three times: rejected
C29_Witness ==
    /\ pc = "gate_done"
    /\ Len(Split(text)) = 5
    /\ \A i \in 1..5 : Occurrences(Split(text), i) <= 3
    /\ c1_result = [pass |-> FALSE, reason |-> "Excessive word repetition"]

\* C30: in every result of apply_three_stage_filter pass_all is True exactly when
\* stage_failed is the marker "None", for any scores and any configured thresholds.
C30_PassAllIffNoStageFailed ==
    Returned => (result.pass_all <=> result.stage_failed = "None")

====
